---- MODULE Spec2Model ----
(***************************************************************************)
(* Solar Savings Calculator: the irradiance retrieval pipeline.            *)
(*                                                                         *)
(*   cacheService.js    (src/unnamed/part_010, lines 1-96)                  *)
(*   solarApiService.js (src/unnamed/part_010, lines 98-249)                *)
(*   server.js          (src/backend/server.js)                             *)
(*                                                                         *)
(* Numbers.  JavaScript numbers are doubles; the model keeps them as       *)
(* fixed-point integers:                                                   *)
(*   - coordinates in thousandths of a degree (28.604 is 28604),           *)
(*   - raw irradiance readings in thousandths of kWh/m2/day (5.0 is 5000), *)
(*   - values rounded by toFixed(2) in hundredths (5.0 is 500).            *)
(* The inputs drawn below never sit on a rounding boundary (no third       *)
(* decimal 5, no average ending in exactly ...5 thousandths), so decimal   *)
(* rounding and the rounding of the binary doubles agree on them.          *)
(***************************************************************************)
EXTENDS Integers, Sequences, FiniteSets, TLC

VARIABLES
    now,        \* Date.now(), in seconds
    cache,      \* NodeCache contents: key -> [v |-> data, t |-> expiry time]
    pc,         \* per request slot: "idle", "awaitFetch", "awaitJson"
    req,        \* per request slot: the parsed coordinates of the request in flight
    calls,      \* per request slot: requests issued to the provider by that call
    last,       \* the last HTTP response sent by GET /api/solar
    lastSet,    \* the last cacheService.set: its arguments, its time and the
                \* value it replaced (history)
    rawData,    \* Normalizer run: the provider payload handed to processNasaResponse
    processed,  \* Normalizer run: what processNasaResponse returned
    npc,        \* Normalizer run: "ready", "done"
    fn,         \* frontend services: the function last called ("none" before)
    args,       \* frontend services: its arguments
    out,        \* frontend services: what it returned
    page,       \* the frontend in use: "App.jsx" (React) or "app.js" (legacy)
    isCalculating,  \* App state; app.js: the calculate button shows its loader
    error,      \* App state: the message shown, or Null; app.js: #errorMessage
    showResults,    \* App state; app.js: #resultsSection is not hidden
    results,    \* App state: the results last set, or Null
    appSolarData,   \* App state solarData: the response last set, or Null
    attempt,    \* the calculation attempt: its inputs and how far it got
    inputValue, \* LocationSearch state: the text of the search box
    isSearching,    \* LocationSearch state
    debounceTimeout,    \* LocationSearch ref: [id |-> the timer last set], or Null
    timers,     \* the browser's pending timers set by LocationSearch
    searches,   \* the queries of the searchLocation calls in flight, oldest first
    reported,   \* the last location handed to onLocationFound, or Null
    lastQuery,  \* the query of the search started last, or Null (history)
    clock       \* the browser's clock, in milliseconds

backendVars == <<now, cache, pc, req, calls, last, lastSet>>
normVars == <<rawData, processed, npc>>
serviceVars == <<fn, args, out>>
appVars ==
    <<page, isCalculating, error, showResults, results, appSolarData, attempt>>
searchVars ==
    <<inputValue, isSearching, debounceTimeout, timers, searches, reported,
      lastQuery, clock>>
frontVars == <<serviceVars, appVars, searchVars>>
vars ==
    <<now, cache, pc, req, calls, last, lastSet, rawData, processed, npc,
      fn, args, out,
      page, isCalculating, error, showResults, results, appSolarData, attempt,
      inputValue, isSearching, debounceTimeout, timers, searches, reported,
      lastQuery, clock>>

(***************************************************************************)
(* Bounds of the model.                                                    *)
(***************************************************************************)
MaxTicks == 2
MaxRequests == 2

\* The request slots: how many requests the server may have in flight.
Slots == {1, 2}


(***************************************************************************)
(* Values that stand for JavaScript's null/undefined and for a thrown      *)
(* exception.                                                              *)
(***************************************************************************)
Null == [null |-> TRUE]
Threw == [threw |-> TRUE]

(***************************************************************************)
(* The Normalizer: processNasaResponse.                                    *)
(*                                                                         *)
(* A provider payload is                                                   *)
(*   [shape |-> s, series |-> m]                                           *)
(* where s says how much of rawData.properties.parameter.ALLSKY_SFC_SW_DWN *)
(* is there, and m (only read under shape "series") is the reading map: a  *)
(* function from period keys to readings.  A period key "YYYYMM" is kept   *)
(* as the number YYYYMM; its last two characters are that number mod 100.  *)
(***************************************************************************)
Shapes == {"null", "noProperties", "noParameter", "noSeries", "series"}

EmptyMap == [k \in {} |-> 0]

irradianceDataOf_noDefault(raw) ==
    IF raw.shape = "series" THEN [threw |-> FALSE, data |-> raw.series]
    ELSE [threw |-> TRUE, data |-> EmptyMap]

\* const parameters = rawData.properties?.parameter || {};
\* const irradianceData = parameters.ALLSKY_SFC_SW_DWN || {};
\* Reading .properties of null is a TypeError; every missing level below
\* it defaults to {}.
irradianceDataOf(raw) ==
    IF raw.shape = "null" THEN [threw |-> TRUE, data |-> EmptyMap]
    ELSE IF raw.shape = "series" THEN [threw |-> FALSE, data |-> raw.series]
    ELSE [threw |-> FALSE, data |-> EmptyMap]

monthNames ==
    << "January", "February", "March", "April", "May", "June",
       "July", "August", "September", "October", "November", "December" >>

\* monthNames[month]: indexing outside the table gives undefined.
monthName(month) ==
    IF month \in 0..11 THEN monthNames[month + 1] ELSE "undefined"

RECURSIVE SortedKeys(_)
\* Object.keys of an object whose keys are canonical integers: ascending
\* numeric order, whatever the order in the JSON text.
SortedKeys(S) ==
    IF S = {} THEN <<>>
    ELSE LET m == CHOOSE x \in S : \A y \in S : x <= y
         IN  <<m>> \o SortedKeys(S \ {m})

ObjectKeys(obj) == SortedKeys(DOMAIN obj)

endsWith13_never(key) == FALSE

\* key.endsWith('13')
endsWith13(key) == key % 100 = 13

isMissing_zeroToo(value) == value <= 0

\* value < 0
isMissing(value) == value < 0

monthOf_oneBased(key) == key % 100

\* parseInt(key.slice(-2)) - 1
monthOf(key) == (key % 100) - 1

\* Number.prototype.toFixed(2) then parseFloat, on a non-negative number in
\* thousandths: the nearest hundredth.
toFixed2(x) == (x + 5) \div 10

RECURSIVE forEachKey(_, _, _, _)
\* The body of Object.keys(irradianceData).forEach, from key number i on.
\* acc is [monthlyData, totalIrradiance, validMonths].
forEachKey(data, keys, i, acc) ==
    IF i > Len(keys) THEN acc
    ELSE LET key == keys[i]
             value == data[key]
         IN  IF endsWith13(key) THEN forEachKey(data, keys, i + 1, acc)
             ELSE IF isMissing(value) THEN forEachKey(data, keys, i + 1, acc)
             ELSE forEachKey(data, keys, i + 1,
                    [monthlyData |-> Append(acc.monthlyData,
                                        [month |-> monthName(monthOf(key)),
                                         monthIndex |-> monthOf(key),
                                         irradiance |-> toFixed2(value)]),
                     totalIrradiance |-> acc.totalIrradiance + value,
                     validMonths |-> acc.validMonths + 1])

RECURSIVE insertSorted(_, _)
\* x goes behind every record whose monthIndex is not greater (a stable sort).
insertSorted(sorted, x) ==
    IF sorted = <<>> THEN <<x>>
    ELSE IF Head(sorted).monthIndex - x.monthIndex <= 0
         THEN <<Head(sorted)>> \o insertSorted(Tail(sorted), x)
         ELSE <<x>> \o sorted

RECURSIVE sortFrom(_, _, _)
sortFrom(arr, i, sorted) ==
    IF i > Len(arr) THEN sorted
    ELSE sortFrom(arr, i + 1, insertSorted(sorted, arr[i]))

sortByMonthIndex_none(monthlyData) == monthlyData

\* monthlyData.sort((a, b) => a.monthIndex - b.monthIndex)
sortByMonthIndex(monthlyData) == sortFrom(monthlyData, 1, <<>>)

averageOf_twelve(totalIrradiance, validMonths) ==
    IF validMonths > 0
    THEN (2 * totalIrradiance + 10 * 12) \div (20 * 12)
    ELSE 0

\* validMonths > 0 ? parseFloat((totalIrradiance / validMonths).toFixed(2)) : 0
\* in hundredths: the quotient rounded to the nearest hundredth.
averageOf(totalIrradiance, validMonths) ==
    IF validMonths > 0
    THEN (2 * totalIrradiance + 10 * validMonths) \div (20 * validMonths)
    ELSE 0

processNasaResponse(raw, latitude, longitude) ==
    LET extracted == irradianceDataOf(raw)
        irradianceData == extracted.data
    IN  IF extracted.threw THEN Threw
        ELSE LET acc == forEachKey(irradianceData, ObjectKeys(irradianceData), 1,
                            [monthlyData |-> <<>>, totalIrradiance |-> 0,
                             validMonths |-> 0])
             IN  [averageDailyIrradiance |->
                      averageOf(acc.totalIrradiance, acc.validMonths),
                  monthlyData |-> sortByMonthIndex(acc.monthlyData),
                  dataSource |-> "NASA POWER API",
                  unit |-> "kWh/m2/day",
                  location |-> [latitude |-> latitude, longitude |-> longitude]]

(***************************************************************************)
(* Provider payloads.                                                      *)
(***************************************************************************)
\* Period keys of two adjacent years and an annual-aggregate key.
SmallKeys == {202301, 202312, 202401, 202402, 202413}

\* Readings in thousandths: the -999 sentinel, a small negative, zero, and
\* three valid readings.
Readings == {-999000, -1, 0, 4336, 5000, 6000}

SmallMaps == UNION {[D -> Readings] : D \in SUBSET SmallKeys}

YearKeys(year) == {year * 100 + m : m \in 1..13}

\* A whole year as the provider answers it: twelve months and the annual key.
SeasonalYear(year) ==
    [k \in YearKeys(year) |->
        IF k % 100 = 13 THEN 4430 ELSE 3000 + 220 * (k % 100)]

\* The same year with February missing.
GappedYear(year) ==
    [k \in YearKeys(year) |->
        IF k % 100 = 2 THEN -999000 ELSE SeasonalYear(year)[k]]

\* Twelve months across a year boundary: July 2023 to June 2024.
SpanningMap ==
    [k \in {202300 + m : m \in 7..12} \cup {202400 + m : m \in 1..6} |->
        3000 + 220 * (k % 100)]

\* Two whole years.
TwoYearMap == SeasonalYear(2023) @@ SeasonalYear(2024)

ReadingMaps ==
    SmallMaps \cup {SeasonalYear(2024), GappedYear(2024), SpanningMap, TwoYearMap}

Series(m) == [shape |-> "series", series |-> m]
Shapeless(s) == [shape |-> s, series |-> EmptyMap]

Payloads ==
    {Series(m) : m \in ReadingMaps} \cup {Shapeless(s) : s \in Shapes \ {"series"}}

(***************************************************************************)
(* Query parameters of GET /api/solar.                                     *)
(*                                                                         *)
(* req.query gives each parameter as a string, or undefined when the       *)
(* request does not carry it.  A string is a sequence of characters.       *)
(***************************************************************************)
Missing == [given |-> FALSE, text |-> <<>>]
Str(chars) == [given |-> TRUE, text |-> chars]

\* !lat: undefined and the empty string are falsy; every other string,
\* "0" included, is truthy.
falsy(p) == ~p.given \/ p.text = <<>>

NaN == [nan |-> TRUE, val |-> 0]
Num(v) == [nan |-> FALSE, val |-> v]

isNaN(x) == x.nan

Digit == {"0", "1", "2", "3", "4", "5", "6", "7", "8", "9"}

digitValue(c) ==
    CASE c = "0" -> 0 [] c = "1" -> 1 [] c = "2" -> 2 [] c = "3" -> 3
      [] c = "4" -> 4 [] c = "5" -> 5 [] c = "6" -> 6 [] c = "7" -> 7
      [] c = "8" -> 8 [] c = "9" -> 9

RECURSIVE digitRun(_, _)
\* How many digits s holds in a row from position i.
digitRun(s, i) ==
    IF i <= Len(s) /\ s[i] \in Digit THEN 1 + digitRun(s, i + 1) ELSE 0

RECURSIVE digitsValue(_, _, _)
\* The number written by the n digits of s from position i.
digitsValue(s, i, n) ==
    IF n = 0 THEN 0
    ELSE digitsValue(s, i, n - 1) * 10 + digitValue(s[i + n - 1])

\* The fraction digits of s from position i (n of them), in thousandths.
fractionValue(s, i, n) ==
    (IF n >= 1 THEN 100 * digitValue(s[i]) ELSE 0)
    + (IF n >= 2 THEN 10 * digitValue(s[i + 1]) ELSE 0)
    + (IF n >= 3 THEN digitValue(s[i + 2]) ELSE 0)

\* parseFloat: the longest prefix that is a decimal literal (sign, digits,
\* fraction) is the number, whatever follows it; NaN when there is none.
\* (No parameter of the model has leading blanks, an exponent, "Infinity"
\* or more than three fraction digits.)  The result is in thousandths.
parseFloat(p) ==
    IF ~p.given THEN NaN
    ELSE LET s == p.text
             signed == Len(s) >= 1 /\ s[1] \in {"-", "+"}
             start == IF signed THEN 2 ELSE 1
             n1 == digitRun(s, start)
             dot == start + n1
             hasDot == dot <= Len(s) /\ s[dot] = "."
             n2 == IF hasDot THEN digitRun(s, dot + 1) ELSE 0
             magnitude == digitsValue(s, start, n1) * 1000
                              + fractionValue(s, dot + 1, n2)
         IN  IF n1 = 0 /\ n2 = 0 THEN NaN
             ELSE IF signed /\ s[1] = "-" THEN Num(-magnitude)
             ELSE Num(magnitude)

missingParameters_both(lat, lon) == falsy(lat) /\ falsy(lon)

\* if (!lat || !lon)
missingParameters(lat, lon) == falsy(lat) \/ falsy(lon)

\* isNaN(latitude) || latitude < -90 || latitude > 90
invalidLatitude(latitude) ==
    isNaN(latitude) \/ latitude.val < -90000 \/ latitude.val > 90000

\* isNaN(longitude) || longitude < -180 || longitude > 180
invalidLongitude(longitude) ==
    isNaN(longitude) \/ longitude.val < -180000 \/ longitude.val > 180000

MissingParametersBody ==
    [error |-> "Missing parameters",
     message |-> "Both lat and lon query parameters are required"]

InvalidLatitudeBody ==
    [error |-> "Invalid latitude",
     message |-> "Latitude must be a number between -90 and 90"]

InvalidLongitudeBody ==
    [error |-> "Invalid longitude",
     message |-> "Longitude must be a number between -180 and 180"]

ApiErrorBody ==
    [error |-> "API Error",
     message |-> "Failed to fetch solar data. Please try again later."]

SuccessBody_swapped(solarData, latitude, longitude) ==
    [success |-> TRUE,
     data |-> solarData,
     location |-> [latitude |-> longitude, longitude |-> latitude]]

SuccessBody(solarData, latitude, longitude) ==
    [success |-> TRUE,
     data |-> solarData,
     location |-> [latitude |-> latitude, longitude |-> longitude]]

\* The message of the Error getSolarData throws from its catch block.
FetchFailedMessage == "Failed to fetch solar data from NASA POWER API"

\* The messages of the errors getSolarData's try block may meet: the
\* rejection of fetch, the Error thrown on !response.ok (its text ends with
\* the upstream status), the rejection of response.json(), the TypeError of
\* rawData.properties on null.
TransportErrorMessage == "request to power.larc.nasa.gov failed"
StatusErrorMessage == "NASA API responded with status: 503"
JsonErrorMessage == "invalid json response body"
TypeErrorMessage == "Cannot read properties of null (reading 'properties')"

thrownMessage_rethrow(caught) == caught

\* catch (error) { ...; throw new Error('Failed to fetch solar data ...') }:
\* the message of the error getSolarData throws, whatever it caught.
thrownMessage(caught) == FetchFailedMessage

handlerErrorBody_leak(message) == [error |-> "API Error", message |-> message]

\* The handler's catch (error): the body of its 500 response, given
\* error.message.
handlerErrorBody(message) == ApiErrorBody

(***************************************************************************)
(* The Cache Store: cacheService over a NodeCache with stdTTL 86400,       *)
(* checkperiod 600 and useClones false.                                    *)
(***************************************************************************)
stdTTL == 86400

\* Time advances in steps of one time-to-live: an entry is met at its set,
\* at the last moment of its life and after it.
TickSeconds == stdTTL

generateKey_lonOnly(lat, lon) == <<"solar", 0, (lon + 5) \div 10>>

generateKey_unrounded(lat, lon) == <<"solar", lat, lon>>

\* Math.round(lat * 100) / 100 for both coordinates; the key is the string
\* `solar_${roundedLat}_${roundedLon}`, one string per pair of rounded
\* values, kept as that pair (in hundredths of a degree).
generateKey(lat, lon) == <<"solar", (lat + 5) \div 10, (lon + 5) \div 10>>

\* NodeCache's check of an entry on access: expired once its time has passed.
expired_never(entry, time) == FALSE

expired(entry, time) == entry.t < time

\* NodeCache.get(key): the stored value (the same object: useClones is
\* false), undefined when the key is absent or its entry has expired.
nodeCacheGet(store, time, key) ==
    IF key \in DOMAIN store /\ ~expired(store[key], time)
    THEN store[key].v
    ELSE Null

\* What NodeCache.get(key) leaves in the store: an expired entry it met is
\* deleted.
nodeCacheAfterGet_evict(store, time, key) ==
    [k \in DOMAIN store \ {key} |-> store[k]]

nodeCacheAfterGet(store, time, key) ==
    IF key \in DOMAIN store /\ expired(store[key], time)
    THEN [k \in DOMAIN store \ {key} |-> store[k]]
    ELSE store

nodeCacheSet_keepExisting(store, time, key, value) ==
    store @@ (key :> [v |-> value, t |-> time + stdTTL])

\* NodeCache.set(key, value): the entry is replaced, living stdTTL seconds.
nodeCacheSet(store, time, key, value) ==
    (key :> [v |-> value, t |-> time + stdTTL]) @@ store

cacheGet_alwaysMiss(store, time, lat, lon) == Null

cacheGet_coalesce(store, time, lat, lon) ==
    IF \E s \in DOMAIN pc :
           /\ pc[s] # "idle"
           /\ generateKey(req[s].latitude, req[s].longitude) = generateKey(lat, lon)
    THEN processNasaResponse(Shapeless("noSeries"), lat, lon)
    ELSE LET data == nodeCacheGet(store, time, generateKey(lat, lon))
         IN  IF data # Null THEN data ELSE Null

\* cacheService.get(lat, lon)
cacheGet(store, time, lat, lon) ==
    LET data == nodeCacheGet(store, time, generateKey(lat, lon))
    IN  IF data # Null THEN data ELSE Null

\* cacheService.set(lat, lon, data)
cacheSet(store, time, lat, lon, data) ==
    nodeCacheSet(store, time, generateKey(lat, lon), data)

(***************************************************************************)
(* Inputs of the server.                                                   *)
(***************************************************************************)
sEmpty == Str(<<>>)
sAbc == Str(<<"a", "b", "c">>)
s91 == Str(<<"9", "1">>)
sMinus91 == Str(<<"-", "9", "1">>)
s12abc == Str(<<"1", "2", "a", "b", "c">>)
s28600 == Str(<<"2", "8", ".", "6">>)
s28604 == Str(<<"2", "8", ".", "6", "0", "4">>)
s28606 == Str(<<"2", "8", ".", "6", "0", "6">>)
s181 == Str(<<"1", "8", "1">>)
sMinus181 == Str(<<"-", "1", "8", "1">>)
s77200 == Str(<<"7", "7", ".", "2">>)

\* The query strings the clients send, as [lat, lon]:
\*   three nearby points, two of them in one cache bucket;
\*   a parameter absent or empty;
\*   a parameter that is no number, or a number followed by letters;
\*   a coordinate out of range.
Queries ==
    { [lat |-> s28600, lon |-> s77200], [lat |-> s28604, lon |-> s77200],
      [lat |-> s28606, lon |-> s77200],
      [lat |-> Missing, lon |-> s77200], [lat |-> s28600, lon |-> Missing],
      [lat |-> Missing, lon |-> Missing], [lat |-> sEmpty, lon |-> s77200],
      [lat |-> sAbc, lon |-> s77200], [lat |-> s28600, lon |-> sAbc],
      [lat |-> s12abc, lon |-> s77200],
      [lat |-> s91, lon |-> s77200], [lat |-> sMinus91, lon |-> s77200],
      [lat |-> s28600, lon |-> s181], [lat |-> s28600, lon |-> sMinus181],
      [lat |-> s91, lon |-> sAbc] }

\* How the provider's HTTP exchange may end: a transport failure, a
\* non-success status, a success status.
FetchOutcomes == {"rejected", "notOk", "ok"}

\* The reading map of the specification's example, and another one.
ExampleMap == (202401 :> 5000) @@ (202402 :> -999000) @@ (202413 :> 6000)
OtherMap == (202312 :> 4336) @@ (202401 :> 6000)

\* The bodies a success response of the provider may carry; "invalidJson"
\* is a body response.json() cannot parse.
ProviderBodies ==
    { Series(ExampleMap), Series(OtherMap), Shapeless("noProperties"),
      Shapeless("null"), Shapeless("invalidJson") }

(***************************************************************************)
(* The server: GET /api/solar and getSolarData.                            *)
(***************************************************************************)
NoReq == [lat |-> Missing, lon |-> Missing, latitude |-> 0, longitude |-> 0]
NoSet ==
    [given |-> FALSE, lat |-> 0, lon |-> 0, data |-> Null, at |-> 0,
     replaced |-> Null]
NoResponse ==
    [n |-> 0, slot |-> 0, lat |-> Missing, lon |-> Missing, status |-> 0,
     body |-> Null, fetcher |-> FALSE, calls |-> 0, hit |-> FALSE, error |-> "",
     caught |-> "", shape |-> ""]

InFlight == Cardinality({s \in Slots : pc[s] # "idle"})

\* The response to the request of slot r.  fetcher: getSolarData was called;
\* c: the provider requests it issued; hit: it was served from the cache;
\* err: the message of the error it threw; caught: the message of the error
\* its catch block caught; shape: the shape of the provider body it parsed
\* ("" when it parsed none).
Reply(r, lat, lon, status, body, fetcher, c, hit, err, caught, shape) ==
    [n |-> last.n + 1, slot |-> r, lat |-> lat, lon |-> lon, status |-> status,
     body |-> body, fetcher |-> fetcher, calls |-> c, hit |-> hit, error |-> err,
     caught |-> caught, shape |-> shape]

InitBackend ==
    /\ now = 0
    /\ cache = <<>>
    /\ pc = [r \in Slots |-> "idle"]
    /\ req = [r \in Slots |-> NoReq]
    /\ calls = [r \in Slots |-> 0]
    /\ last = NoResponse
    /\ lastSet = NoSet

Handle_validatesLate(r) ==
    /\ pc[r] = "idle"
    /\ last.n + InFlight < MaxRequests
    /\ \E query \in Queries :
         LET lat == query.lat
             lon == query.lon
             latitude == parseFloat(lat)
             longitude == parseFloat(lon)
         IN  IF missingParameters(lat, lon) THEN
                 /\ last' = Reply(r, lat, lon, 400, MissingParametersBody,
                                  FALSE, 0, FALSE, "", "", "")
                 /\ UNCHANGED <<cache, pc, req, calls>>
             ELSE IF invalidLatitude(latitude) THEN
                 /\ last' = Reply(r, lat, lon, 400, InvalidLatitudeBody,
                                  FALSE, 0, FALSE, "", "", "")
                 /\ UNCHANGED <<cache, pc, req, calls>>
             ELSE IF invalidLongitude(longitude) THEN
                 /\ last' = Reply(r, lat, lon, 400, InvalidLongitudeBody,
                                  TRUE, 0, FALSE, "", "", "")
                 /\ UNCHANGED <<cache, pc, req, calls>>
             ELSE
                 LET cachedData ==
                         cacheGet(cache, now, latitude.val, longitude.val)
                 IN  /\ cache' = nodeCacheAfterGet(cache, now,
                                     generateKey(latitude.val, longitude.val))
                     /\ IF cachedData # Null THEN
                            /\ last' = Reply(r, lat, lon, 200,
                                   SuccessBody(cachedData, latitude.val,
                                               longitude.val),
                                   TRUE, 0, TRUE, "", "", "")
                            /\ UNCHANGED <<pc, req, calls>>
                        ELSE
                            /\ pc' = [pc EXCEPT ![r] = "awaitFetch"]
                            /\ req' = [req EXCEPT ![r] =
                                   [lat |-> lat, lon |-> lon,
                                    latitude |-> latitude.val,
                                    longitude |-> longitude.val]]
                            /\ calls' = [calls EXCEPT ![r] = 1]
                            /\ UNCHANGED last
    /\ UNCHANGED <<now, lastSet>>
    /\ UNCHANGED <<normVars, frontVars>>

\* A request arrives and its handler runs up to its first suspension: the
\* validation, then getSolarData up to the cache lookup and, on a miss, the
\* fetch it issues.
Handle(r) ==
    /\ pc[r] = "idle"
    /\ last.n + InFlight < MaxRequests
    /\ \E query \in Queries :
         LET lat == query.lat
             lon == query.lon
             latitude == parseFloat(lat)
             longitude == parseFloat(lon)
         IN  IF missingParameters(lat, lon) THEN
                 /\ last' = Reply(r, lat, lon, 400, MissingParametersBody,
                                  FALSE, 0, FALSE, "", "", "")
                 /\ UNCHANGED <<cache, pc, req, calls>>
             ELSE IF invalidLatitude(latitude) THEN
                 /\ last' = Reply(r, lat, lon, 400, InvalidLatitudeBody,
                                  FALSE, 0, FALSE, "", "", "")
                 /\ UNCHANGED <<cache, pc, req, calls>>
             ELSE IF invalidLongitude(longitude) THEN
                 /\ last' = Reply(r, lat, lon, 400, InvalidLongitudeBody,
                                  FALSE, 0, FALSE, "", "", "")
                 /\ UNCHANGED <<cache, pc, req, calls>>
             ELSE
                 LET cachedData ==
                         cacheGet(cache, now, latitude.val, longitude.val)
                 IN  /\ cache' = nodeCacheAfterGet(cache, now,
                                     generateKey(latitude.val, longitude.val))
                     /\ IF cachedData # Null THEN
                            /\ last' = Reply(r, lat, lon, 200,
                                   SuccessBody(cachedData, latitude.val,
                                               longitude.val),
                                   TRUE, 0, TRUE, "", "", "")
                            /\ UNCHANGED <<pc, req, calls>>
                        ELSE
                            /\ pc' = [pc EXCEPT ![r] = "awaitFetch"]
                            /\ req' = [req EXCEPT ![r] =
                                   [lat |-> lat, lon |-> lon,
                                    latitude |-> latitude.val,
                                    longitude |-> longitude.val]]
                            /\ calls' = [calls EXCEPT ![r] = 1]
                            /\ UNCHANGED last
    /\ UNCHANGED <<now, lastSet>>
    /\ UNCHANGED <<normVars, frontVars>>

Fail_retry(r, caught, shape) ==
    IF calls[r] < 2
    THEN /\ pc' = [pc EXCEPT ![r] = "awaitFetch"]
         /\ calls' = [calls EXCEPT ![r] = calls[r] + 1]
         /\ UNCHANGED <<req, last>>
    ELSE /\ last' = Reply(r, req[r].lat, req[r].lon, 500,
                          handlerErrorBody(thrownMessage(caught)), TRUE,
                          calls[r], FALSE, thrownMessage(caught), caught, shape)
         /\ pc' = [pc EXCEPT ![r] = "idle"]
         /\ req' = [req EXCEPT ![r] = NoReq]
         /\ calls' = [calls EXCEPT ![r] = 0]

\* getSolarData's catch block caught an error: it throws its own, and the
\* handler's catch block answers 500.  There is no second attempt.
Fail(r, caught, shape) ==
    /\ last' = Reply(r, req[r].lat, req[r].lon, 500,
                     handlerErrorBody(thrownMessage(caught)), TRUE,
                     calls[r], FALSE, thrownMessage(caught), caught, shape)
    /\ pc' = [pc EXCEPT ![r] = "idle"]
    /\ req' = [req EXCEPT ![r] = NoReq]
    /\ calls' = [calls EXCEPT ![r] = 0]

FetchSettled_cachesFailure(r) ==
    /\ pc[r] = "awaitFetch"
    /\ \E outcome \in FetchOutcomes :
         IF outcome = "ok" THEN
             /\ pc' = [pc EXCEPT ![r] = "awaitJson"]
             /\ UNCHANGED <<req, calls, last, cache>>
         ELSE
             /\ Fail(r, IF outcome = "rejected" THEN TransportErrorMessage
                         ELSE StatusErrorMessage, "")
             /\ cache' = cacheSet(cache, now, req[r].latitude, req[r].longitude,
                                  processNasaResponse(Shapeless("noSeries"),
                                      req[r].latitude, req[r].longitude))
    /\ UNCHANGED <<now, lastSet>>
    /\ UNCHANGED <<normVars, frontVars>>

\* await fetch(apiUrl) settles.
FetchSettled(r) ==
    /\ pc[r] = "awaitFetch"
    /\ \E outcome \in FetchOutcomes :
         IF outcome = "ok" THEN
             /\ pc' = [pc EXCEPT ![r] = "awaitJson"]
             /\ UNCHANGED <<req, calls, last>>
         ELSE Fail(r, IF outcome = "rejected" THEN TransportErrorMessage
                      ELSE StatusErrorMessage, "")
    /\ UNCHANGED <<now, cache, lastSet>>
    /\ UNCHANGED <<normVars, frontVars>>

\* await response.json() settles; the rest of getSolarData and of the
\* handler run.
JsonSettled(r) ==
    /\ pc[r] = "awaitJson"
    /\ \E body \in ProviderBodies :
         LET latitude == req[r].latitude
             longitude == req[r].longitude
             processedData == IF body.shape = "invalidJson" THEN Threw
                              ELSE processNasaResponse(body, latitude, longitude)
         IN  IF processedData = Threw THEN
                 /\ Fail(r, IF body.shape = "invalidJson" THEN JsonErrorMessage
                             ELSE TypeErrorMessage, body.shape)
                 /\ UNCHANGED <<cache, lastSet>>
             ELSE
                 /\ cache' = cacheSet(cache, now, latitude, longitude,
                                      processedData)
                 /\ lastSet' = [given |-> TRUE, lat |-> latitude,
                                lon |-> longitude, data |-> processedData,
                                at |-> now,
                                replaced |-> nodeCacheGet(cache, now,
                                    generateKey(latitude, longitude))]
                 /\ last' = Reply(r, req[r].lat, req[r].lon, 200,
                        SuccessBody(processedData, latitude, longitude),
                        TRUE, calls[r], FALSE, "", "", body.shape)
                 /\ pc' = [pc EXCEPT ![r] = "idle"]
                 /\ req' = [req EXCEPT ![r] = NoReq]
                 /\ calls' = [calls EXCEPT ![r] = 0]
    /\ UNCHANGED now
    /\ UNCHANGED <<normVars, frontVars>>

\* cacheService.clear()
Clear ==
    /\ cache' = <<>>
    /\ lastSet' = NoSet
    /\ UNCHANGED <<now, pc, req, calls, last>>
    /\ UNCHANGED <<normVars, frontVars>>

\* NodeCache's periodic check (every checkperiod seconds) deletes the
\* expired entries.
CheckData ==
    /\ \E k \in DOMAIN cache : expired(cache[k], now)
    /\ cache' = [k \in {x \in DOMAIN cache : ~expired(cache[x], now)} |-> cache[k]]
    /\ UNCHANGED <<now, pc, req, calls, last, lastSet>>
    /\ UNCHANGED <<normVars, frontVars>>

\* Time passes.
Tick ==
    /\ now < MaxTicks * TickSeconds
    /\ now' = now + TickSeconds
    /\ UNCHANGED <<cache, pc, req, calls, last, lastSet>>
    /\ UNCHANGED <<normVars, frontVars>>

NormIdle ==
    /\ rawData = Shapeless("noSeries")
    /\ processed = Null
    /\ npc = "ready"

\* The App component as mounted (App.jsx, the useState initial values); no
\* calculation has been attempted.
AppMounted ==
    /\ isCalculating = FALSE
    /\ error = Null
    /\ showResults = FALSE
    /\ results = Null
    /\ appSolarData = Null
    /\ attempt = [state |-> "none"]

AppIdle == page = "App.jsx" /\ AppMounted

\* The LocationSearch component as mounted: an empty box, no timer, no search.
SearchIdle ==
    /\ inputValue = ""
    /\ isSearching = FALSE
    /\ debounceTimeout = Null
    /\ timers = {}
    /\ searches = <<>>
    /\ reported = Null
    /\ lastQuery = Null
    /\ clock = 0

\* No frontend service function has been called.
ServiceIdle ==
    /\ fn = "none"
    /\ args = Null
    /\ out = Null

\* The frontend at rest: the specifications of the server and of the
\* Normalizer leave it there.
FrontIdle == ServiceIdle /\ AppIdle /\ SearchIdle

Init == InitBackend /\ NormIdle /\ FrontIdle

Next ==
    \/ \E r \in Slots : Handle(r)
    \/ \E r \in Slots : FetchSettled(r)
    \/ \E r \in Slots : JsonSettled(r)
    \/ Clear
    \/ CheckData
    \/ Tick

Spec == Init /\ [][Next]_vars

\* The message of the error cache.set throws when the store takes no more
\* keys (NodeCache's ECACHEFULL).
StoreErrorMessage == "Cache max keys amount exceeded"

\* await response.json() settles with a body processNasaResponse accepts,
\* and cacheService.set throws: the call sits in getSolarData's try block,
\* so the catch block takes the error.  With the options of this program
\* (no maxKeys) the store does not throw; this step is the fault the
\* specification SpecStoreFault adds.
StoreFails(r) ==
    /\ pc[r] = "awaitJson"
    /\ \E body \in ProviderBodies :
         /\ body.shape # "invalidJson"
         /\ processNasaResponse(body, req[r].latitude, req[r].longitude) # Threw
         /\ Fail(r, StoreErrorMessage, body.shape)
    /\ UNCHANGED <<now, cache, lastSet>>
    /\ UNCHANGED <<normVars, frontVars>>

NextStoreFault ==
    \/ Next
    \/ \E r \in Slots : StoreFails(r)

\* The server with a store that may fail.
SpecStoreFault == Init /\ [][NextStoreFault]_vars

(***************************************************************************)
(* The Normalizer on its own: processNasaResponse applied to a payload.    *)
(***************************************************************************)
InitNorm ==
    /\ InitBackend
    /\ FrontIdle
    /\ rawData \in Payloads
    /\ processed = Null
    /\ npc = "ready"

Normalize ==
    /\ npc = "ready"
    /\ \E latitude \in {28600, 28604} :
         processed' = processNasaResponse(rawData, latitude, 77200)
    /\ npc' = "done"
    /\ UNCHANGED rawData
    /\ UNCHANGED <<backendVars, frontVars>>

NextNorm == Normalize

SpecNorm == InitNorm /\ [][NextNorm]_vars

(***************************************************************************)
(* Properties of the Normalizer (checked under SpecNorm).                  *)
(***************************************************************************)
\* The raw reading map of a payload: empty when the payload does not hold it.
ReadingsOf(raw) == IF raw.shape = "series" THEN raw.series ELSE EmptyMap

\* The periods that count: not the annual key, not a negative reading.
ValidPeriods(m) == {k \in DOMAIN m : k % 100 # 13 /\ m[k] >= 0}

RECURSIVE SumOver(_, _)
SumOver(m, S) ==
    IF S = {} THEN 0
    ELSE LET k == CHOOSE x \in S : TRUE IN m[k] + SumOver(m, S \ {k})

\* h (hundredths) is x / n (x in thousandths) rounded to 2 decimal places.
IsRounded2(h, x, n) == (10 * h - 5) * n <= x /\ x < (10 * h + 5) * n

Normalized == npc = "done" /\ processed # Threw

\* C4: monthlyData holds exactly one record per key that is neither
\* 13-suffixed nor negative-valued, and none from an excluded key; the
\* map {202401: 5.0, 202402: -999, 202413: 6.0} gives one record, January
\* (monthIndex 0), and the average 5.0.
C4_ExcludesSentinelsAndAnnualKey ==
    Normalized =>
        LET m == ReadingsOf(rawData)
            md == processed.monthlyData
            valid == ValidPeriods(m)
        IN  /\ Len(md) = Cardinality(valid)
            /\ \A k \in valid :
                   Cardinality({i \in 1..Len(md) :
                       /\ md[i].monthIndex = (k % 100) - 1
                       /\ IsRounded2(md[i].irradiance, m[k], 1)})
                   = Cardinality({j \in valid :
                       /\ j % 100 = k % 100
                       /\ (m[j] + 5) \div 10 = (m[k] + 5) \div 10})
            /\ (rawData = Series(ExampleMap) =>
                   /\ md = << [month |-> "January", monthIndex |-> 0,
                               irradiance |-> 500] >>
                   /\ processed.averageDailyIrradiance = 500)

C4_Witness ==
    /\ Normalized
    /\ rawData = Series(ExampleMap)
    /\ Len(processed.monthlyData) = 1

\* C5: with at least one valid reading, averageDailyIrradiance is the sum
\* of the valid readings divided by the number of records of monthlyData
\* (not by 12), rounded to 2 decimal places.
C5_AverageOverPresentMonths ==
    (Normalized /\ ValidPeriods(ReadingsOf(rawData)) # {}) =>
        LET m == ReadingsOf(rawData)
        IN  /\ Len(processed.monthlyData) > 0
            /\ IsRounded2(processed.averageDailyIrradiance,
                          SumOver(m, ValidPeriods(m)),
                          Len(processed.monthlyData))

C5_Witness ==
    /\ Normalized
    /\ Len(processed.monthlyData) \in 2..11
    /\ processed.averageDailyIrradiance > 0
    /\ ~IsRounded2(processed.averageDailyIrradiance,
                   SumOver(ReadingsOf(rawData),
                           ValidPeriods(ReadingsOf(rawData))), 12)

C7_SortedByMonthIndex ==
    Normalized =>
        \A i, j \in 1..Len(processed.monthlyData) :
            i < j => processed.monthlyData[i].monthIndex
                        <= processed.monthlyData[j].monthIndex

\* Two valid periods whose key order is not their month order.
C7_Witness ==
    /\ Normalized
    /\ \E k1, k2 \in ValidPeriods(ReadingsOf(rawData)) :
           k1 < k2 /\ k1 % 100 > k2 % 100
    /\ Len(processed.monthlyData) >= 2
    /\ processed.monthlyData[1].monthIndex
           < processed.monthlyData[Len(processed.monthlyData)].monthIndex

AtMostOnePerMonth(md) ==
    /\ Len(md) <= 12
    /\ \A i, j \in 1..Len(md) : md[i].monthIndex = md[j].monthIndex => i = j

\* The keys are the periods of one year: YYYY01 .. YYYY13.
SingleYear(m) ==
    /\ \A k \in DOMAIN m : k % 100 \in 1..13
    /\ \A k1, k2 \in DOMAIN m : k1 \div 100 = k2 \div 100

\* C8, as stated: for any raw reading map monthlyData holds at most 12
\* records, at most one per calendar month.
C8_AtMostTwelve_AnyMap ==
    Normalized => AtMostOnePerMonth(processed.monthlyData)

\* C8, amended: for a raw reading map whose keys are the periods of one
\* year, monthlyData holds at most 12 records, at most one per calendar
\* month.
C8_AtMostTwelve_SingleYear ==
    (Normalized /\ SingleYear(ReadingsOf(rawData))) =>
        AtMostOnePerMonth(processed.monthlyData)

C8_Witness ==
    /\ Normalized
    /\ SingleYear(ReadingsOf(rawData))
    /\ Cardinality(DOMAIN ReadingsOf(rawData)) = 13
    /\ Len(processed.monthlyData) = 12

(***************************************************************************)
(* Properties of the Cache Store, the Fetcher and the endpoint (checked    *)
(* under Spec).                                                            *)
(***************************************************************************)
\* The 2-decimal value (in hundredths) a coordinate (in thousandths) rounds to.
Rounded2(x) == (x + 5) \div 10

\* Coordinates around the points the clients ask for.
NearbyLatitudes == {x \in 28594..28606 : x % 10 # 5}
NearbyLongitudes == {x \in 77194..77206 : x % 10 # 5}

\* The entry of the last set is still there: not expired, not cleared.
LastSetLive == lastSet.given /\ now <= lastSet.at + stdTTL

\* C1: after set(lat1, lon1, d), and before expiry or clear, get(lat2, lon2)
\* returns d for every pair whose coordinates round to the same 2-decimal
\* values as lat1 and lon1.
C1_SameBucketSameEntry ==
    LastSetLive =>
        \A lat2 \in NearbyLatitudes, lon2 \in NearbyLongitudes :
            (/\ Rounded2(lat2) = Rounded2(lastSet.lat)
             /\ Rounded2(lon2) = Rounded2(lastSet.lon))
                => cacheGet(cache, now, lat2, lon2) = lastSet.data

\* A request for another point of the bucket was served the entry.
C1_Witness ==
    /\ LastSetLive
    /\ last.status = 200
    /\ last.hit
    /\ last.body.data = lastSet.data
    /\ last.body.location.latitude # lastSet.lat
    /\ Rounded2(last.body.location.latitude) = Rounded2(lastSet.lat)

\* The handler of slot r starts, in this step, a getSolarData call for the
\* coordinates c: the call either suspends at its fetch or answers at once.
StartsCall(r, c) ==
    /\ pc[r] = "idle"
    /\ \/ /\ pc'[r] = "awaitFetch"
          /\ req'[r].latitude = c.latitude
          /\ req'[r].longitude = c.longitude
       \/ /\ last'.n = last.n + 1
          /\ last'.slot = r
          /\ last'.fetcher
          /\ last'.status = 200
          /\ last'.body.location = c

Coordinates ==
    {[latitude |-> x, longitude |-> y] :
        x \in {12000, 28600, 28604, 28606}, y \in {77200}}

\* C2: a getSolarData call that finds no entry for its coordinate issues
\* exactly one provider request, and so has a call that succeeds after a
\* miss; a call repeated for the same coordinate after a successful one,
\* before expiry and with no clear in between, issues none and returns the
\* same result.
C2_FirstCallOnceRepeatNone ==
    [][ \A r \in Slots :
          /\ \A c \in Coordinates :
                (/\ cacheGet(cache, now, c.latitude, c.longitude) = Null
                 /\ StartsCall(r, c))
                    => pc'[r] = "awaitFetch" /\ calls'[r] = 1
          /\ (pc[r] # "idle" /\ pc'[r] = "idle" /\ last'.status = 200)
                => last'.calls = 1 /\ ~last'.hit
          /\ (/\ last.status = 200
              /\ LastSetLive
              /\ lastSet.data = last.body.data
              /\ lastSet.lat = last.body.location.latitude
              /\ lastSet.lon = last.body.location.longitude
              /\ StartsCall(r, last.body.location))
                => /\ pc'[r] = "idle"
                   /\ calls' = calls
                   /\ last'.n = last.n + 1
                   /\ last'.status = 200
                   /\ last'.calls = 0
                   /\ last'.body.data = last.body.data
      ]_vars

\* The second request repeated the first one's coordinate and was served
\* the first one's result without a provider request.
C2_Witness ==
    /\ last.n = 2
    /\ last.status = 200
    /\ last.hit
    /\ last.calls = 0
    /\ LastSetLive
    /\ last.body.data = lastSet.data
    /\ last.body.location.latitude = lastSet.lat
    /\ last.body.location.longitude = lastSet.lon

\* C3: in every success response, data.location is the latitude and
\* longitude of that request (the envelope's location).
C3_LocationIsTheRequests ==
    last.status = 200 => last.body.data.location = last.body.location

\* C9: a request without lat or without lon is answered 400 with an error
\* envelope (error "Missing parameters"), and getSolarData is not called.
C9_MissingParameterRejected ==
    (last.n > 0 /\ (~last.lat.given \/ ~last.lon.given)) =>
        /\ last.status = 400
        /\ "error" \in DOMAIN last.body
        /\ last.body.error = "Missing parameters"
        /\ ~last.fetcher
        /\ last.calls = 0

C9_Witness ==
    /\ last.n > 0
    /\ last.lat.given
    /\ ~last.lon.given
    /\ last.status = 400

\* The whole text is a decimal number: sign, digits, fraction, nothing else.
IsNumericText(p) ==
    /\ p.given
    /\ LET s == p.text
           signed == Len(s) >= 1 /\ s[1] \in {"-", "+"}
           start == IF signed THEN 2 ELSE 1
           n1 == digitRun(s, start)
           dot == start + n1
           hasDot == dot <= Len(s) /\ s[dot] = "."
           n2 == IF hasDot THEN digitRun(s, dot + 1) ELSE 0
           used == (start - 1) + n1 + (IF hasDot THEN 1 + n2 ELSE 0)
       IN  (n1 > 0 \/ n2 > 0) /\ used = Len(s)

InRange(lat, lon) ==
    /\ parseFloat(lat).val >= -90000 /\ parseFloat(lat).val <= 90000
    /\ parseFloat(lon).val >= -180000 /\ parseFloat(lon).val <= 180000

\* C10: a request whose lat or lon is not a number, or is out of range, is
\* answered 400 with an error envelope; a request with numeric lat and lon
\* in range is not.
C10_BadCoordinateRejected ==
    (last.n > 0 /\ last.lat.given /\ last.lon.given) =>
        IF /\ IsNumericText(last.lat)
           /\ IsNumericText(last.lon)
           /\ InRange(last.lat, last.lon)
        THEN last.status # 400
        ELSE last.status = 400 /\ "error" \in DOMAIN last.body

\* The value getSolarData returned to the handler that wrote the last
\* response: the entry of the request's key on a hit, the processed data it
\* stored on a miss.  Null where the state no longer holds it.
ReturnedData ==
    IF last.hit
    THEN cacheGet(cache, now, parseFloat(last.lat).val, parseFloat(last.lon).val)
    ELSE IF lastSet.given THEN lastSet.data ELSE Null

\* C11: when validation passes and getSolarData returns d, the response is
\* 200 with the envelope {success: true, data: d, location: {latitude,
\* longitude}}: data is d unmodified and location is the parsed latitude and
\* longitude of the request.
C11_SuccessEnvelope ==
    /\ (last.fetcher /\ last.error = "") =>
          /\ last.status = 200
          /\ DOMAIN last.body = {"success", "data", "location"}
          /\ last.body.success = TRUE
          /\ last.body.location =
                [latitude |-> parseFloat(last.lat).val,
                 longitude |-> parseFloat(last.lon).val]
          /\ ReturnedData # Null => last.body.data = ReturnedData
    /\ last.status = 200 => (last.fetcher /\ last.error = "")

C11_Witness ==
    /\ last.status = 200
    /\ ~last.hit
    /\ last.lat = s28604
    /\ ReturnedData # Null
    /\ last.body.data = ReturnedData
    /\ last.body.data.monthlyData # <<>>
    /\ last.body.location = [latitude |-> 28604, longitude |-> 77200]

\* C12: when getSolarData fails, with whatever error, the response is 500
\* with an error envelope whose message is one fixed text, the same for
\* every error and different from the error's own text.
C12_FailureIsGeneric500 ==
    /\ (last.fetcher /\ last.error # "") =>
          /\ last.status = 500
          /\ last.body =
                [error |-> "API Error",
                 message |-> "Failed to fetch solar data. Please try again later."]
          /\ last.body.message # last.error
          /\ last.body.message # last.caught
    /\ last.status = 500 => (last.fetcher /\ last.error # "")

C12_Witness ==
    /\ last.status = 500
    /\ last.fetcher
    /\ last.error = FetchFailedMessage
    /\ last.caught = JsonErrorMessage
    /\ last.body.error = "API Error"

\* The provider request of the call behind the last response failed: fetch
\* rejected, or the response's status was not a success.
UpstreamFailed == last.caught \in {TransportErrorMessage, StatusErrorMessage}

\* C13: on a cache miss, when the provider request fails at transport level
\* or answers with a non-success status, getSolarData fails, and the message
\* of its error is one fixed text: not the transport error's, and not the
\* text that carries the upstream status; no payload was read.
C13_UpstreamFailureFixedMessage ==
    UpstreamFailed =>
        /\ ~last.hit
        /\ last.calls = 1
        /\ last.status # 200
        /\ last.error = "Failed to fetch solar data from NASA POWER API"
        /\ last.error # last.caught
        /\ last.shape = ""

C13_Witness ==
    /\ last.caught = StatusErrorMessage
    /\ last.error = FetchFailedMessage
    /\ last.n = 2

\* The call behind the last response normalized its payload and then met a
\* failing store.
StoreFailed == last.caught = StoreErrorMessage

C15_ShapelessPayloadDegrades ==
    (last.fetcher /\ ~last.hit /\ last.shape \in Shapes \ {"series"}) =>
        /\ last.error = ""
        /\ last.status = 200
        /\ last.body.data.monthlyData = <<>>
        /\ last.body.data.averageDailyIrradiance = 0

\* C16: a provider request is never retried.  Every getSolarData call
\* issues at most one provider request: none on a cache hit, exactly one on
\* a miss; a failed request is answered with the failure, after that one
\* request.
C16_NoRetry ==
    /\ \A r \in Slots :
          /\ calls[r] <= 1
          /\ pc[r] # "idle" => calls[r] = 1
    /\ last.calls <= 1
    /\ last.hit => last.calls = 0
    /\ (last.fetcher /\ ~last.hit) => last.calls = 1
    /\ last.error # "" => last.calls = 1

C16_Witness ==
    /\ last.n = 2
    /\ last.error = FetchFailedMessage
    /\ last.caught = TransportErrorMessage
    /\ last.calls = 1
    /\ \A r \in Slots : pc[r] = "idle"

\* The coordinates c fall into the bucket of the last set.
InLastSetBucket(c) ==
    generateKey(c.latitude, c.longitude) = generateKey(lastSet.lat, lastSet.lon)

\* C17: get returns the stored value while the entry is there and not older
\* than 86,400 seconds (24 hours) counted from its set, and null when there
\* is no entry or the entry is older; the first getSolarData call for a
\* bucket after its entry expired requests the provider again.
C17_TtlIs24Hours ==
    /\ [](/\ lastSet.given =>
              cacheGet(cache, now, lastSet.lat, lastSet.lon) =
                  IF now - lastSet.at <= 86400 THEN lastSet.data ELSE Null
          /\ \A c \in Coordinates :
                generateKey(c.latitude, c.longitude) \notin DOMAIN cache
                    => cacheGet(cache, now, c.latitude, c.longitude) = Null)
    /\ [][ \A r \in Slots, c \in Coordinates :
             (/\ lastSet.given
              /\ now - lastSet.at > 86400
              /\ InLastSetBucket(c)
              /\ StartsCall(r, c))
                 => pc'[r] = "awaitFetch" /\ calls'[r] = 1
       ]_vars

\* A day and more after the set, a request for the bucket waits for the
\* provider.
C17_Witness ==
    /\ lastSet.given
    /\ now - lastSet.at > 86400
    /\ cacheGet(cache, now, lastSet.lat, lastSet.lon) = Null
    /\ \E r \in Slots :
          /\ pc[r] = "awaitFetch"
          /\ calls[r] = 1
          /\ InLastSetBucket(req[r])

\* The call of slot r stores its result in this step.
SetsEntry(r) == pc[r] = "awaitJson" /\ pc'[r] = "idle" /\ last'.status = 200

\* C18: set overwrites.  After a set on a bucket, whether or not the bucket
\* held an entry, get for the bucket returns the data of that set (the last
\* write wins), and the entries of all other buckets are what they were.
C18_LastWriteWins ==
    [][ \A r \in Slots :
          SetsEntry(r) =>
              LET key == generateKey(req[r].latitude, req[r].longitude)
              IN  /\ lastSet'.given
                  /\ lastSet'.lat = req[r].latitude
                  /\ lastSet'.lon = req[r].longitude
                  /\ lastSet'.replaced = nodeCacheGet(cache, now, key)
                  /\ cacheGet(cache', now', req[r].latitude, req[r].longitude)
                        = lastSet'.data
                  /\ DOMAIN cache' = DOMAIN cache \cup {key}
                  /\ \A k \in DOMAIN cache \ {key} : cache'[k] = cache[k]
      ]_vars

\* The last set replaced a live entry that held other data.
C18_Witness ==
    /\ lastSet.given
    /\ lastSet.replaced # Null
    /\ lastSet.replaced # lastSet.data
    /\ cacheGet(cache, now, lastSet.lat, lastSet.lon) = lastSet.data

\* The last set left the entry of another bucket in place.
OtherBucketKept ==
    /\ lastSet.given
    /\ Cardinality(DOMAIN cache) = 2
    /\ cacheGet(cache, now, lastSet.lat, lastSet.lon) = lastSet.data

\* The keys whose entries get would serve now.
LiveKeys == {k \in DOMAIN cache : ~expired(cache[k], now)}

\* The value get serves for the live key k is the same after this step.
KeepsValue(k) ==
    /\ k \in DOMAIN cache'
    /\ ~expired(cache'[k], now')
    /\ cache'[k].v = cache[k].v

\* This step is cacheService.clear(), or the entry of k expires in it.
ClearedOrExpired(k) ==
    \/ cache' = <<>> /\ lastSet' = NoSet
    \/ now' # now /\ (k \in DOMAIN cache' => expired(cache'[k], now'))

\* C19 as stated: under any interleaving of concurrent requests, once a
\* value is stored for a bucket, the value returned for the bucket does not
\* change until the entry expires or the cache is cleared.
C19_EntryReadOnly ==
    [][ \A k \in LiveKeys : KeepsValue(k) \/ ClearedOrExpired(k) ]_vars

\* C19, amended: once a value is stored for a bucket, the value returned for
\* the bucket changes only when the entry expires, when the cache is
\* cleared, or when a call for the bucket that had missed the cache before
\* the value was stored completes and sets its own result; no cache hit and
\* no failed call changes it.
C19_EntryChangesOnlyBySet ==
    [][ \A k \in LiveKeys :
          \/ KeepsValue(k)
          \/ ClearedOrExpired(k)
          \/ \E r \in Slots :
                /\ SetsEntry(r)
                /\ generateKey(req[r].latitude, req[r].longitude) = k
                /\ calls[r] = 1
                /\ cache'[k].v = lastSet'.data
                /\ cache'[k].v = last'.body.data
      ]_vars

\* Two calls for one bucket missed; the first stored its result, and the
\* second, completing later, replaced it with other data, which the bucket
\* now serves.
C19_Witness ==
    /\ lastSet.given
    /\ generateKey(lastSet.lat, lastSet.lon) \in LiveKeys
    /\ lastSet.replaced # Null
    /\ lastSet.replaced.monthlyData # lastSet.data.monthlyData
    /\ last.n = 2
    /\ ~last.hit
    /\ last.calls = 1
    /\ cache[generateKey(lastSet.lat, lastSet.lon)].v = last.body.data

\* A call for the bucket of the coordinates c, other than slot r's, is
\* suspended at its provider request or at the reading of its answer.
OtherCallInFlight(r, c) ==
    \E s \in Slots \ {r} :
        /\ pc[s] # "idle"
        /\ calls[s] = 1
        /\ generateKey(req[s].latitude, req[s].longitude)
              = generateKey(c.latitude, c.longitude)

\* C20: there is no single-flight.  A getSolarData call that starts for a
\* bucket while another call for the same bucket is still in flight, and
\* before any value is stored, misses the cache too and issues its own
\* provider request; the one in flight keeps its own.
C20_ConcurrentMissesBothFetch ==
    [][ \A r \in Slots, c \in Coordinates :
          (/\ OtherCallInFlight(r, c)
           /\ nodeCacheGet(cache, now,
                           generateKey(c.latitude, c.longitude)) = Null
           /\ StartsCall(r, c))
              => /\ pc'[r] = "awaitFetch"
                 /\ calls'[r] = 1
                 /\ OtherCallInFlight(r, c)'
      ]_vars

\* Two calls for one bucket, for different coordinates of it, both wait for
\* the provider, each with a request of its own, and nothing is stored.
C20_Witness ==
    /\ pc[1] = "awaitFetch"
    /\ pc[2] = "awaitFetch"
    /\ calls[1] = 1
    /\ calls[2] = 1
    /\ req[1].latitude # req[2].latitude
    /\ generateKey(req[1].latitude, req[1].longitude)
          = generateKey(req[2].latitude, req[2].longitude)
    /\ cache = <<>>

\* The key of the bucket a coordinate pair rounds to.
BucketOf(latitude, longitude) ==
    <<"solar", Rounded2(latitude), Rounded2(longitude)>>

\* The data d is the normalization of a provider body for the coordinates
\* it names as its location.
NormalizedFor(d, latitude, longitude) ==
    \E body \in ProviderBodies :
        /\ body.shape # "invalidJson"
        /\ d = processNasaResponse(body, latitude, longitude)

\* C21: under any interleaving of in-flight requests for different buckets,
\* a request that misses returns the normalization of its own provider
\* response for its own coordinates, a request that hits is served an entry
\* of its own bucket, and the entry under a key was produced by a request
\* whose coordinates round to that key's bucket.
C21_BucketsAreIsolated ==
    /\ \A k \in DOMAIN cache :
          /\ k = BucketOf(cache[k].v.location.latitude,
                          cache[k].v.location.longitude)
          /\ NormalizedFor(cache[k].v, cache[k].v.location.latitude,
                           cache[k].v.location.longitude)
    /\ (last.status = 200 /\ ~last.hit) =>
          /\ last.shape \in Shapes
          /\ NormalizedFor(last.body.data, parseFloat(last.lat).val,
                           parseFloat(last.lon).val)
    /\ (last.status = 200 /\ last.hit) =>
          BucketOf(last.body.data.location.latitude,
                   last.body.data.location.longitude)
            = BucketOf(parseFloat(last.lat).val, parseFloat(last.lon).val)

\* The request for one bucket has stored and returned its own result while
\* a request for another bucket is reading its provider response.
C21_Witness ==
    /\ last.status = 200
    /\ ~last.hit
    /\ BucketOf(parseFloat(last.lat).val, parseFloat(last.lon).val)
          \in DOMAIN cache
    /\ \E r \in Slots :
          /\ pc[r] = "awaitJson"
          /\ BucketOf(req[r].latitude, req[r].longitude) \notin DOMAIN cache
          /\ BucketOf(req[r].latitude, req[r].longitude)
                # BucketOf(parseFloat(last.lat).val, parseFloat(last.lon).val)

(***************************************************************************)
(* The frontend's calculation service.                                     *)
(*                                                                         *)
(* Roof area (m2), efficiency (percent) and electricity rate are whole     *)
(* numbers here; the average daily irradiance is in hundredths, as the     *)
(* server sends it.  Intermediate values, which the code keeps as doubles, *)
(* are kept as exact fractions [n |-> numerator, d |-> denominator] in     *)
(* lowest terms.                                                           *)
(***************************************************************************)
RECURSIVE GCD(_, _)
GCD(a, b) == IF b = 0 THEN a ELSE GCD(b, a % b)

\* The fraction n / d (n >= 0, d > 0), in lowest terms.
Frac(n, d) == LET g == GCD(n, d) IN [n |-> n \div g, d |-> d \div g]

\* x * y for fractions in lowest terms, cancelling before multiplying.
Times(x, y) ==
    LET g1 == GCD(x.n, y.d)
        g2 == GCD(y.n, x.d)
    IN  [n |-> (x.n \div g1) * (y.n \div g2),
         d |-> (x.d \div g2) * (y.d \div g1)]

\* CO2_FACTOR = 0.82, in hundredths.
CO2_FACTOR == 82

\* Math.round(x) for x >= 0: the nearest integer.  When the exact value lies
\* halfway between two integers the double the code holds may be the exact
\* half (rounded up) or a few ulps below it (rounded down).
MathRound(x) ==
    LET q == x.n \div x.d
        r == x.n % x.d
    IN  IF 2 * r < x.d THEN {q}
        ELSE IF 2 * r > x.d THEN {q + 1}
        ELSE {q, q + 1}

\* const annualEnergy = roofArea * efficiencyDecimal * avgDailyIrradiance * 365
\* with efficiencyDecimal = efficiency / 100.
annualEnergyOf(roofArea, efficiency, avgDailyIrradiance) ==
    LET efficiencyDecimal == Frac(efficiency, 100)
    IN  Times(Times(Times(Frac(roofArea, 1), efficiencyDecimal),
                    Frac(avgDailyIrradiance, 100)), Frac(365, 1))

annualSavingsOf_rounded(annualEnergy, electricityRate) ==
    Frac((annualEnergy.n \div annualEnergy.d) * electricityRate, 1)

\* const annualSavings = annualEnergy * electricityRate
annualSavingsOf(annualEnergy, electricityRate) ==
    Times(annualEnergy, Frac(electricityRate, 1))

\* const co2Saved = annualEnergy * CO2_FACTOR
co2SavedOf(annualEnergy) == Times(annualEnergy, Frac(CO2_FACTOR, 100))

\* calculateSolarPotential: the records it may return (one, unless a value
\* to round lies halfway).  dailyEnergy, a toFixed(2) string, is kept in
\* hundredths.
calculateSolarPotential(roofArea, efficiency, electricityRate, avgDailyIrradiance) ==
    LET annualEnergy == annualEnergyOf(roofArea, efficiency, avgDailyIrradiance)
        annualSavings == annualSavingsOf(annualEnergy, electricityRate)
        co2Saved == co2SavedOf(annualEnergy)
    IN  { [annualEnergy |-> e, annualSavings |-> s, co2Saved |-> c,
           avgDailyIrradiance |-> avgDailyIrradiance,
           dailyEnergy |-> de, monthlySavings |-> ms] :
            e \in MathRound(annualEnergy),
            s \in MathRound(annualSavings),
            c \in MathRound(co2Saved),
            de \in MathRound(Times(annualEnergy, Frac(100, 365))),
            ms \in MathRound(Times(annualSavings, Frac(1, 12))) }

\* The values the form and the server hand to calculateSolarPotential.
RoofAreas == {1, 33, 50, 10000}
Efficiencies == {15, 18, 22}
ElectricityRates == {6, 7, 8}
Irradiances == {0, 433, 500, 517}

\* A call of calculateSolarPotential.
Calculate ==
    /\ \E roofArea \in RoofAreas, efficiency \in Efficiencies,
          electricityRate \in ElectricityRates,
          avgDailyIrradiance \in Irradiances :
          /\ fn' = "calculateSolarPotential"
          /\ args' = [roofArea |-> roofArea, efficiency |-> efficiency,
                      electricityRate |-> electricityRate,
                      avgDailyIrradiance |-> avgDailyIrradiance]
          /\ out' \in calculateSolarPotential(roofArea, efficiency,
                           electricityRate, avgDailyIrradiance)
    /\ UNCHANGED <<backendVars, normVars, appVars, searchVars>>

InitCalc == InitBackend /\ NormIdle /\ FrontIdle

NextCalc == Calculate

SpecCalc == InitCalc /\ [][NextCalc]_vars

(***************************************************************************)
(* Properties of the calculation service (checked under SpecCalc).         *)
(***************************************************************************)
\* The integer x is a nearest integer of the fraction f.
Nearest(x, f) ==
    LET below == f.n \div f.d
        rest == f.n % f.d
    IN  IF 2 * rest < f.d THEN x = below
        ELSE IF 2 * rest > f.d THEN x = below + 1
        ELSE x \in {below, below + 1}

\* roofArea * (efficiency / 100) * avgDailyIrradiance * 365, unrounded.
ExactEnergy ==
    Times(Frac(args.roofArea * args.efficiency, 100),
          Frac(args.avgDailyIrradiance * 365, 100))

\* C22: calculateSolarPotential returns annualEnergy = round(roofArea *
\* (efficiency / 100) * avgDailyIrradiance * 365), annualSavings =
\* round(annualEnergy * electricityRate) and co2Saved = round(annualEnergy *
\* 0.82), the last two from the unrounded annualEnergy; for (50, 18, 8, 5)
\* they are 16425, 131400 and 13469 (give or take 1).
C22_CalculationFormulas ==
    fn = "calculateSolarPotential" =>
        /\ Nearest(out.annualEnergy, ExactEnergy)
        /\ Nearest(out.annualSavings,
                   Times(ExactEnergy, Frac(args.electricityRate, 1)))
        /\ Nearest(out.co2Saved, Times(ExactEnergy, Frac(82, 100)))
        /\ args = [roofArea |-> 50, efficiency |-> 18,
                   electricityRate |-> 8, avgDailyIrradiance |-> 500]
              => /\ out.annualEnergy = 16425
                 /\ out.annualSavings = 131400
                 /\ out.co2Saved \in 13468..13470

C22_Witness ==
    /\ fn = "calculateSolarPotential"
    /\ args = [roofArea |-> 50, efficiency |-> 18,
               electricityRate |-> 8, avgDailyIrradiance |-> 500]
    /\ out.annualEnergy = 16425
    /\ out.annualSavings = 131400
    /\ out.co2Saved = 13469

\* A call where rounding annualEnergy before multiplying would change the
\* savings: 33 m2 at 15 % and 4.33 kWh/m2/day give 7823.2275 kWh.
RoundingOrderMatters ==
    /\ fn = "calculateSolarPotential"
    /\ args = [roofArea |-> 33, efficiency |-> 15,
               electricityRate |-> 8, avgDailyIrradiance |-> 433]
    /\ out.annualEnergy = 7823
    /\ out.annualSavings = 62586

(***************************************************************************)
(* Properties of the server, continued (checked under Spec).               *)
(***************************************************************************)
\* The getSolarData call of slot r fails in this step.
FailsNow(r) == pc[r] # "idle" /\ pc'[r] = "idle" /\ last'.error # ""

\* C23 as stated: when getSolarData fails, the cache is left unchanged, so
\* the next getSolarData call for the same bucket misses.
C23_FailureThenMiss ==
    [][ \A r \in Slots :
          FailsNow(r) =>
              /\ cache' = cache
              /\ cacheGet(cache', now', req[r].latitude, req[r].longitude)
                    = Null
      ]_vars

\* C23, amended: a getSolarData call that fails (transport error,
\* non-success status, exception while parsing or normalizing) stores
\* nothing and leaves the cache as it was; when the bucket holds no entry
\* stored by another call, the next getSolarData call for it misses and
\* requests the provider again.
C23_FailureStoresNothing ==
    [][ \A r \in Slots :
          /\ FailsNow(r) => (cache' = cache /\ lastSet' = lastSet)
          /\ \A c \in Coordinates :
                (/\ last.error # ""
                 /\ BucketOf(c.latitude, c.longitude)
                      = BucketOf(parseFloat(last.lat).val,
                                 parseFloat(last.lon).val)
                 /\ nodeCacheGet(cache, now,
                                 BucketOf(c.latitude, c.longitude)) = Null
                 /\ StartsCall(r, c))
                    => pc'[r] = "awaitFetch" /\ calls'[r] = 1
      ]_vars

\* The first call failed with nothing stored, and the slot it held now
\* carries a later call for the same bucket that waits for the provider.
C23_Witness ==
    /\ last.n = 1
    /\ last.error # ""
    /\ cache = <<>>
    /\ pc[last.slot] = "awaitFetch"
    /\ calls[last.slot] = 1
    /\ BucketOf(req[last.slot].latitude, req[last.slot].longitude)
          = BucketOf(parseFloat(last.lat).val, parseFloat(last.lon).val)

(***************************************************************************)
(* Properties of the Normalizer, continued (checked under SpecNorm).       *)
(***************************************************************************)
\* The calendar table.
Calendar ==
    << "January", "February", "March", "April", "May", "June",
       "July", "August", "September", "October", "November", "December" >>

\* C24: every record of monthlyData has a monthIndex in 0..11, which is the
\* number made of the last two characters of a period key of the raw map,
\* less one (a key that is not the annual one and whose reading is not
\* missing), and its month is the name at that index of the 12-name
\* calendar table.
C24_MonthIndexAndName ==
    Normalized =>
        \A i \in 1..Len(processed.monthlyData) :
            LET record == processed.monthlyData[i]
            IN  /\ record.monthIndex \in 0..11
                /\ record.month = Calendar[record.monthIndex + 1]
                /\ \E key \in DOMAIN rawData.series :
                      /\ key % 100 = record.monthIndex + 1
                      /\ rawData.series[key] >= 0
                      /\ Rounded2(rawData.series[key]) = record.irradiance

\* A whole year was normalized: twelve records, the last one December.
C24_Witness ==
    /\ Normalized
    /\ Len(processed.monthlyData) = 12
    /\ processed.monthlyData[1].month = "January"
    /\ processed.monthlyData[12].monthIndex = 11
    /\ processed.monthlyData[12].month = "December"

(***************************************************************************)
(* Properties of the server, continued (checked under Spec).               *)
(***************************************************************************)
\* C25: validation precedes delegation.  A request answered with 400 never
\* reaches getSolarData: no provider request is issued, no call is left in
\* flight, and the cache is neither read (an expired entry a read would
\* drop stays) nor written.
C25_Rejected400TouchesNothing ==
    [][ (last'.n = last.n + 1 /\ last'.status = 400) =>
          /\ ~last'.fetcher
          /\ ~last'.hit
          /\ last'.calls = 0
          /\ cache' = cache
          /\ lastSet' = lastSet
          /\ pc' = pc
          /\ req' = req
          /\ calls' = calls
      ]_vars

\* The second request was out of range and answered 400, and the entry the
\* first one stored, expired since, still sits in the store.
C25_Witness ==
    /\ last.n = 2
    /\ last.status = 400
    /\ last.body.error = "Invalid longitude"
    /\ ~last.fetcher
    /\ \E k \in DOMAIN cache : expired(cache[k], now)

(***************************************************************************)
(* The frontend's input validation.                                        *)
(*                                                                         *)
(* The arguments are numbers or NaN (handleCalculate passes parseFloat     *)
(* results): NaN or Num(v), with latitude and longitude in thousandths of  *)
(* a degree, as on the server, and the other values in their own units.    *)
(* A result is [isValid, error]: error is Null where the code gives null   *)
(* or no error, and ErrorText(message) otherwise.                          *)
(***************************************************************************)
ErrorText(message) == [text |-> message]

Invalid(message) == [isValid |-> FALSE, error |-> ErrorText(message)]

validateInputs_noUpperBound(lat, lon, roofArea, efficiency, rate) ==
    IF isNaN(lat) \/ isNaN(lon) THEN
        Invalid("Please select a location on the map or enter coordinates.")
    ELSE IF lat.val < -90000 \/ lat.val > 90000 THEN
        Invalid("Latitude must be between -90 and 90 degrees.")
    ELSE IF lon.val < -180000 \/ lon.val > 180000 THEN
        Invalid("Longitude must be between -180 and 180 degrees.")
    ELSE IF isNaN(roofArea) \/ roofArea.val <= 0 THEN
        Invalid("Please enter a valid roof area (greater than 0).")
    ELSE IF isNaN(efficiency) \/ efficiency.val < 15 \/ efficiency.val > 22 THEN
        Invalid("Panel efficiency must be between 15% and 22%.")
    ELSE IF isNaN(rate) \/ rate.val <= 0 THEN
        Invalid("Please enter a valid electricity rate.")
    ELSE [isValid |-> TRUE, error |-> Null]

\* calculationService.js validateInputs
validateInputs(lat, lon, roofArea, efficiency, rate) ==
    IF isNaN(lat) \/ isNaN(lon) THEN
        Invalid("Please select a location on the map or enter coordinates.")
    ELSE IF lat.val < -90000 \/ lat.val > 90000 THEN
        Invalid("Latitude must be between -90 and 90 degrees.")
    ELSE IF lon.val < -180000 \/ lon.val > 180000 THEN
        Invalid("Longitude must be between -180 and 180 degrees.")
    ELSE IF isNaN(roofArea) \/ roofArea.val <= 0 THEN
        Invalid("Please enter a valid roof area (greater than 0).")
    ELSE IF roofArea.val > 10000 THEN
        Invalid("Roof area seems too large. Please enter a realistic value.")
    ELSE IF isNaN(efficiency) \/ efficiency.val < 15 \/ efficiency.val > 22 THEN
        Invalid("Panel efficiency must be between 15% and 22%.")
    ELSE IF isNaN(rate) \/ rate.val <= 0 THEN
        Invalid("Please enter a valid electricity rate.")
    ELSE [isValid |-> TRUE, error |-> Null]

\* app.js validateInputs: the same checks; it returns the boolean and hands
\* the message to showError.
validateInputsAppJs(lat, lon, roofArea, efficiency, rate) ==
    IF isNaN(lat) \/ isNaN(lon) THEN
        Invalid("Please select a location on the map or enter coordinates.")
    ELSE IF lat.val < -90000 \/ lat.val > 90000 THEN
        Invalid("Latitude must be between -90 and 90 degrees.")
    ELSE IF lon.val < -180000 \/ lon.val > 180000 THEN
        Invalid("Longitude must be between -180 and 180 degrees.")
    ELSE IF isNaN(roofArea) \/ roofArea.val <= 0 THEN
        Invalid("Please enter a valid roof area (greater than 0).")
    ELSE IF roofArea.val > 10000 THEN
        Invalid("Roof area seems too large. Please enter a realistic value.")
    ELSE IF isNaN(efficiency) \/ efficiency.val < 15 \/ efficiency.val > 22 THEN
        Invalid("Panel efficiency must be between 15% and 22%.")
    ELSE IF isNaN(rate) \/ rate.val <= 0 THEN
        Invalid("Please enter a valid electricity rate.")
    ELSE [isValid |-> TRUE, error |-> Null]

\* !x for a number: NaN and 0 are falsy.
not(x) == isNaN(x) \/ x.val = 0

\* apiService.js validateInputs
validateInputsApiService(lat, lng, roofArea, efficiency, rate) ==
    IF not(lat) \/ not(lng) THEN
        Invalid("Please select a location on the map.")
    ELSE IF not(roofArea) \/ roofArea.val <= 0 THEN
        Invalid("Enter a valid roof area.")
    ELSE [isValid |-> TRUE, error |-> Null]

\* What the form may hold once parsed.
FormLatitudes == {NaN} \cup {Num(v) : v \in {-90001, -90000, 0, 28600, 90000, 90001}}
FormLongitudes ==
    {NaN} \cup {Num(v) : v \in {-180001, -180000, 0, 77200, 180000, 180001}}
FormRoofAreas == {NaN} \cup {Num(v) : v \in {-1, 0, 1, 50, 10000, 10001}}
FormEfficiencies == {NaN} \cup {Num(v) : v \in {14, 15, 18, 22, 23}}
FormRates == {NaN} \cup {Num(v) : v \in {-1, 0, 8}}

FormArgs ==
    [lat : FormLatitudes, lon : FormLongitudes, roofArea : FormRoofAreas,
     efficiency : FormEfficiencies, rate : FormRates]

\* A call of calculationService's validateInputs (one call is followed
\* here: the function keeps no state between calls).
Validate ==
    /\ fn = "none"
    /\ \E a \in FormArgs :
          /\ fn' = "calculationService.validateInputs"
          /\ args' = a
          /\ out' = validateInputs(a.lat, a.lon, a.roofArea, a.efficiency, a.rate)
    /\ UNCHANGED <<backendVars, normVars, appVars, searchVars>>

\* A call of app.js's validateInputs.
ValidateAppJs ==
    /\ fn = "none"
    /\ \E a \in FormArgs :
          /\ fn' = "app.validateInputs"
          /\ args' = a
          /\ out' = validateInputsAppJs(a.lat, a.lon, a.roofArea, a.efficiency,
                                        a.rate)
    /\ UNCHANGED <<backendVars, normVars, appVars, searchVars>>

\* A call of apiService's validateInputs.
ValidateApiService ==
    /\ fn = "none"
    /\ \E a \in FormArgs :
          /\ fn' = "apiService.validateInputs"
          /\ args' = a
          /\ out' = validateInputsApiService(a.lat, a.lon, a.roofArea,
                                             a.efficiency, a.rate)
    /\ UNCHANGED <<backendVars, normVars, appVars, searchVars>>

InitValidate == InitBackend /\ NormIdle /\ FrontIdle

NextValidate ==
    \/ Validate
    \/ ValidateAppJs
    \/ ValidateApiService

SpecValidate == InitValidate /\ [][NextValidate]_vars

(***************************************************************************)
(* Properties of the input validation (checked under SpecValidate).        *)
(***************************************************************************)
\* The checks of the claim, in its order; 0 when all pass.
FirstFailingCheck ==
    IF args.lat.nan \/ args.lon.nan THEN 1
    ELSE IF ~(args.lat.val >= -90000 /\ args.lat.val <= 90000) THEN 2
    ELSE IF ~(args.lon.val >= -180000 /\ args.lon.val <= 180000) THEN 3
    ELSE IF args.roofArea.nan
            \/ ~(args.roofArea.val > 0 /\ args.roofArea.val <= 10000) THEN 4
    ELSE IF args.efficiency.nan
            \/ ~(args.efficiency.val >= 15 /\ args.efficiency.val <= 22) THEN 5
    ELSE IF args.rate.nan \/ ~(args.rate.val > 0) THEN 6
    ELSE 0

\* The messages that report each check.
MessagesOfCheck(check) ==
    CASE check = 1 ->
           {"Please select a location on the map or enter coordinates."}
      [] check = 2 -> {"Latitude must be between -90 and 90 degrees."}
      [] check = 3 -> {"Longitude must be between -180 and 180 degrees."}
      [] check = 4 ->
           {"Please enter a valid roof area (greater than 0).",
            "Roof area seems too large. Please enter a realistic value."}
      [] check = 5 -> {"Panel efficiency must be between 15% and 22%."}
      [] check = 6 -> {"Please enter a valid electricity rate."}

\* C26: validateInputs (calculationService.js and app.js) answers isValid =
\* true exactly when lat and lon are numbers, lat is in [-90, 90], lon in
\* [-180, 180], 0 < roofArea <= 10000, efficiency in [15, 22] and rate > 0;
\* otherwise isValid = false with a non-empty message, that of the first
\* check that fails, in this order.
C26_ValidateInputs ==
    fn \in {"calculationService.validateInputs", "app.validateInputs"} =>
        IF FirstFailingCheck = 0
        THEN out.isValid = TRUE /\ out.error = Null
        ELSE /\ out.isValid = FALSE
             /\ out.error # Null
             /\ out.error.text # ""
             /\ out.error.text \in MessagesOfCheck(FirstFailingCheck)

\* Latitude and longitude pass, the roof area is over the limit and the
\* rate is not a number: the roof area is what is reported.
C26_Witness ==
    /\ fn = "calculationService.validateInputs"
    /\ args.lat = Num(0)
    /\ args.lon = Num(-180000)
    /\ args.roofArea = Num(10001)
    /\ args.rate = NaN
    /\ out.isValid = FALSE
    /\ out.error.text = "Roof area seems too large. Please enter a realistic value."

(***************************************************************************)
(* From the frontend to the server: fetchSolarData hands lat and lon to    *)
(* axios as params, which writes each number into the query string as      *)
(* String(number); the server reads them back with parseFloat.             *)
(***************************************************************************)
digitChar(d) == <<"0", "1", "2", "3", "4", "5", "6", "7", "8", "9">>[d + 1]

RECURSIVE digitsOf(_)
\* The decimal digits of the natural number n.
digitsOf(n) ==
    IF n < 10 THEN <<digitChar(n)>>
    ELSE Append(digitsOf(n \div 10), digitChar(n % 10))

\* The fraction digits of f thousandths, without trailing zeros.
fractionDigits(f) ==
    IF f % 100 = 0 THEN <<digitChar(f \div 100)>>
    ELSE IF f % 10 = 0 THEN <<digitChar(f \div 100), digitChar((f \div 10) % 10)>>
    ELSE <<digitChar(f \div 100), digitChar((f \div 10) % 10), digitChar(f % 10)>>

\* String(x) for a number of the model (in thousandths) or NaN.
numberToString(x) ==
    IF isNaN(x) THEN <<"N", "a", "N">>
    ELSE LET magnitude == IF x.val < 0 THEN -x.val ELSE x.val
             sign == IF x.val < 0 THEN <<"-">> ELSE <<>>
             whole == digitsOf(magnitude \div 1000)
             fraction == IF magnitude % 1000 = 0 THEN <<>>
                         ELSE <<".">> \o fractionDigits(magnitude % 1000)
         IN  sign \o whole \o fraction

\* GET /api/solar with the query fetchSolarData(lat, lon) sends passes the
\* server's validation.
serverAccepts(lat, lon) ==
    LET latParam == Str(numberToString(lat))
        lonParam == Str(numberToString(lon))
    IN  /\ ~missingParameters(latParam, lonParam)
        /\ ~invalidLatitude(parseFloat(latParam))
        /\ ~invalidLongitude(parseFloat(lonParam))

(***************************************************************************)
(* Properties of the input validation, continued (under SpecValidate).     *)
(***************************************************************************)
\* The arguments other than the location pass every variant's checks.
OtherInputsValid ==
    /\ ~args.roofArea.nan /\ args.roofArea.val > 0 /\ args.roofArea.val <= 10000
    /\ ~args.efficiency.nan /\ args.efficiency.val >= 15
    /\ args.efficiency.val <= 22
    /\ ~args.rate.nan /\ args.rate.val > 0

\* C27: for every numeric (lat, lon), the other inputs being valid, each
\* validateInputs variant of the frontend accepts the location if and only
\* if the validation of GET /api/solar accepts lat and lon; latitude 0 and
\* longitude 0 are accepted by both.
C27_FrontendAgreesWithServer ==
    (/\ fn \in {"calculationService.validateInputs", "app.validateInputs",
                "apiService.validateInputs"}
     /\ ~args.lat.nan
     /\ ~args.lon.nan
     /\ OtherInputsValid)
        => /\ out.isValid <=> serverAccepts(args.lat, args.lon)
           /\ (args.lat.val = 0 /\ args.lon.val = 0) =>
                 (out.isValid /\ serverAccepts(args.lat, args.lon))

\* The same, for the two variants the pages use.
CalculationVariantsAgreeWithServer ==
    (/\ fn \in {"calculationService.validateInputs", "app.validateInputs"}
     /\ ~args.lat.nan
     /\ ~args.lon.nan
     /\ OtherInputsValid)
        => /\ out.isValid <=> serverAccepts(args.lat, args.lon)
           /\ (args.lat.val = 0 /\ args.lon.val = 0) =>
                 (out.isValid /\ serverAccepts(args.lat, args.lon))


(***************************************************************************)
(* The calculation attempt of the two frontends: App.handleCalculate       *)
(* (App.jsx, with the submit button of CalculatorForm.jsx) and app.js's    *)
(* handleFormSubmit.  The state of the legacy page is its DOM: the error   *)
(* box (error, Null when hidden), the results section (showResults), the   *)
(* calculate button (isCalculating: disabled, showing its loader) and the  *)
(* values displayResults wrote (results, appSolarData).                    *)
(***************************************************************************)
Pages == {"App.jsx", "app.js"}

\* What the form holds when it is submitted, after parseFloat.
AppForms ==
    { [lat |-> Num(28600), lon |-> Num(77200), roofArea |-> Num(50),
       efficiency |-> Num(18), rate |-> Num(8)],
      [lat |-> Num(0), lon |-> Num(0), roofArea |-> Num(33),
       efficiency |-> Num(15), rate |-> Num(6)],
      [lat |-> Num(90001), lon |-> Num(77200), roofArea |-> Num(50),
       efficiency |-> Num(18), rate |-> Num(8)],
      [lat |-> Num(28600), lon |-> Num(77200), roofArea |-> NaN,
       efficiency |-> Num(18), rate |-> Num(8)] }

\* What the request GET /api/solar may meet: 200 with the success body, 200
\* with a body that has no data, 200 with an empty body, the handler's 500,
\* and no response at all (status 0).
Transports ==
    { [status |-> 200,
       body |-> [success |-> TRUE,
                 data |-> [averageDailyIrradiance |-> i]]] : i \in {433, 500} }
    \cup
    { [status |-> 200, body |-> [success |-> TRUE, data |-> Null]],
      [status |-> 200, body |-> Null],
      [status |-> 500, body |-> ApiErrorBody],
      [status |-> 500, body |-> Null],
      [status |-> 0, body |-> Null] }

Returned(value) == [threw |-> FALSE, value |-> value]
Thrown(message) == [threw |-> TRUE, message |-> message]

\* error.response?.data?.message, errorData.message: whether it is there.
hasMessage(body) == body # Null /\ "message" \in DOMAIN body

\* apiService.js fetchSolarData: response.data, or
\* new Error(error.response?.data?.message || 'Failed to fetch solar data').
fetchSolarData(transport) ==
    IF transport.status = 200 THEN Returned(transport.body)
    ELSE IF hasMessage(transport.body)
         THEN Thrown(transport.body.message)
         ELSE Thrown("Failed to fetch solar data")

\* app.js fetchSolarData: fetch rejects without a response ('Failed to
\* fetch'); on !response.ok it throws errorData.message or the default; it
\* returns response.json(), which rejects on an empty body.
fetchSolarDataAppJs(transport) ==
    IF transport.status = 0 THEN Thrown("Failed to fetch")
    ELSE IF transport.status # 200 THEN
        IF hasMessage(transport.body)
        THEN Thrown(transport.body.message)
        ELSE Thrown("Failed to fetch solar data")
    ELSE IF transport.body = Null THEN Thrown("Unexpected end of JSON input")
    ELSE Returned(transport.body)

\* The try block after the await: what it concludes from fetchSolarData's
\* outcome.  if (!solarResponse || !solarResponse.data) throw new
\* Error('Invalid response from server').
hasData(fetched) ==
    /\ ~fetched.threw
    /\ fetched.value # Null
    /\ fetched.value.data # Null

\* catch (err): err.message || 'Failed to calculate solar potential. ...'.
caughtMessage(fetched) ==
    IF fetched.threw THEN fetched.message ELSE "Invalid response from server"

finallyIsCalculating_onSuccessOnly(fetched) == ~hasData(fetched)

\* finally { setIsCalculating(false) }: whatever the try block met.
finallyIsCalculating(fetched) == FALSE

\* setShowResults(true) is reached only past the throw of the try block;
\* the catch leaves the false that handleCalculate set at its start.
showResultsAfter(fetched) == hasData(fetched)

\* App.handleCalculate up to its await: setError(null),
\* setShowResults(false), validation, and on success setIsCalculating(true)
\* and the call of fetchSolarData.  The submit button is disabled while
\* isCalculating.
handleCalculate ==
    /\ page = "App.jsx"
    /\ ~isCalculating
    /\ \E form \in AppForms :
          LET validation == validateInputs(form.lat, form.lon, form.roofArea,
                                           form.efficiency, form.rate)
          IN  IF ~validation.isValid
              THEN /\ error' = validation.error
                   /\ showResults' = FALSE
                   /\ attempt' = [state |-> "invalid", form |-> form]
                   /\ UNCHANGED isCalculating
              ELSE /\ error' = Null
                   /\ showResults' = FALSE
                   /\ isCalculating' = TRUE
                   /\ attempt' = [state |-> "pending", form |-> form]
    /\ UNCHANGED <<page, results, appSolarData>>
    /\ UNCHANGED <<backendVars, normVars, serviceVars, searchVars>>

\* App.handleCalculate after its await: the rest of the try block, the
\* catch and the finally.
handleCalculateSettled ==
    /\ page = "App.jsx"
    /\ attempt.state = "pending"
    /\ \E transport \in Transports :
          LET fetched == fetchSolarData(transport)
              form == attempt.form
          IN  /\ IF hasData(fetched)
                 THEN /\ results' \in calculateSolarPotential(
                              form.roofArea.val, form.efficiency.val,
                              form.rate.val,
                              fetched.value.data.averageDailyIrradiance)
                      /\ appSolarData' = fetched.value
                      /\ attempt' = [state |-> "ok", form |-> form,
                                     response |-> fetched.value]
                      /\ UNCHANGED error
                 ELSE /\ error' = ErrorText(caughtMessage(fetched))
                      /\ attempt' = [state |-> "failed", form |-> form]
                      /\ UNCHANGED <<results, appSolarData>>
              /\ showResults' = IF showResultsAfter(fetched)
                                THEN TRUE ELSE showResults
              /\ isCalculating' = finallyIsCalculating(fetched)
    /\ UNCHANGED page
    /\ UNCHANGED <<backendVars, normVars, serviceVars, searchVars>>

\* App.clearError: the close button of ErrorMessage.
clearError ==
    /\ page = "App.jsx"
    /\ error # Null
    /\ error' = Null
    /\ UNCHANGED <<page, isCalculating, showResults, results, appSolarData,
                   attempt>>
    /\ UNCHANGED <<backendVars, normVars, serviceVars, searchVars>>

\* app.js handleFormSubmit up to its await: validateInputs shows its message
\* and the handler returns, or showLoading(true), hideError(), hideResults()
\* and the call of fetchSolarData.  showLoading(true) disables the button.
handleFormSubmit ==
    /\ page = "app.js"
    /\ ~isCalculating
    /\ \E form \in AppForms :
          LET validation == validateInputsAppJs(form.lat, form.lon,
                                form.roofArea, form.efficiency, form.rate)
          IN  IF ~validation.isValid
              THEN /\ error' = validation.error
                   /\ attempt' = [state |-> "invalid", form |-> form]
                   /\ UNCHANGED <<isCalculating, showResults>>
              ELSE /\ isCalculating' = TRUE
                   /\ error' = Null
                   /\ showResults' = FALSE
                   /\ attempt' = [state |-> "pending", form |-> form]
    /\ UNCHANGED <<page, results, appSolarData>>
    /\ UNCHANGED <<backendVars, normVars, serviceVars, searchVars>>

\* app.js handleFormSubmit after its await: displayResults, or showError in
\* the catch, and showLoading(false) in the finally.
handleFormSubmitSettled ==
    /\ page = "app.js"
    /\ attempt.state = "pending"
    /\ \E transport \in Transports :
          LET fetched == fetchSolarDataAppJs(transport)
              form == attempt.form
          IN  IF hasData(fetched)
              THEN /\ results' \in calculateSolarPotential(
                           form.roofArea.val, form.efficiency.val,
                           form.rate.val,
                           fetched.value.data.averageDailyIrradiance)
                   /\ appSolarData' = fetched.value
                   /\ showResults' = TRUE
                   /\ attempt' = [state |-> "ok", form |-> form,
                                  response |-> fetched.value]
                   /\ UNCHANGED error
              ELSE /\ error' = ErrorText(caughtMessage(fetched))
                   /\ attempt' = [state |-> "failed", form |-> form]
                   /\ UNCHANGED <<results, appSolarData, showResults>>
    /\ isCalculating' = FALSE
    /\ UNCHANGED page
    /\ UNCHANGED <<backendVars, normVars, serviceVars, searchVars>>

InitApp ==
    /\ InitBackend /\ NormIdle /\ ServiceIdle /\ SearchIdle
    /\ page \in Pages
    /\ AppMounted

NextApp ==
    \/ handleCalculate
    \/ handleCalculateSettled
    \/ clearError
    \/ handleFormSubmit
    \/ handleFormSubmitSettled

SpecApp == InitApp /\ [][NextApp]_vars

(***************************************************************************)
(* Claims on the calculation attempt.                                      *)
(***************************************************************************)
\* The attempt's form passes calculationService's validateInputs.
FormIsValid(form) ==
    validateInputs(form.lat, form.lon, form.roofArea, form.efficiency,
                   form.rate).isValid

RequestInFlight == attempt.state = "pending"

\* C28: in App.handleCalculate, isCalculating turns true only in the step
\* that passes validation and issues the solar-data request; the step in
\* which that request resolves or rejects sets it back to false; a step
\* that fails validation issues no request, sets error and leaves
\* isCalculating false.  Hence isCalculating is false whenever no request
\* is in flight.
C28_IsCalculatingFollowsRequest ==
    /\ [](page = "App.jsx" /\ ~RequestInFlight => ~isCalculating)
    /\ [][page = "App.jsx" =>
            /\ (~isCalculating /\ isCalculating') =>
                    /\ ~RequestInFlight
                    /\ RequestInFlight'
                    /\ FormIsValid(attempt'.form)
            /\ (RequestInFlight /\ ~RequestInFlight') => ~isCalculating'
            /\ (handleCalculate /\ ~FormIsValid(attempt'.form)) =>
                    /\ ~RequestInFlight'
                    /\ error' # Null
                    /\ ~isCalculating'
         ]_vars

\* C28 witness: on the React page a request was issued and rejected, and
\* isCalculating is false again with the error shown.
C28_Witness ==
    /\ page = "App.jsx"
    /\ attempt.state = "failed"
    /\ ~isCalculating
    /\ error # Null

\* An attempt completes in this step: it fails validation, or its request
\* settles.
AttemptCompletes ==
    \/ (handleCalculate \/ handleFormSubmit) /\ attempt'.state = "invalid"
    \/ handleCalculateSettled
    \/ handleFormSubmitSettled

\* What the claim asks of the state an attempt leaves behind.
ShownOnlyOnSuccess ==
    /\ showResults' =>
          /\ attempt'.state = "ok"
          /\ results' \in calculateSolarPotential(
                 attempt'.form.roofArea.val, attempt'.form.efficiency.val,
                 attempt'.form.rate.val,
                 attempt'.response.data.averageDailyIrradiance)
          /\ appSolarData' = attempt'.response
          /\ error' = Null
    /\ attempt'.state \in {"invalid", "failed"} =>
          /\ ~showResults'
          /\ error' # Null

\* C29: when a calculation attempt completes, results are visible only if
\* that attempt's fetch succeeded with a data field, and then results and
\* solarData are that attempt's and error is null; after a failed
\* validation or a failed fetch the results are hidden and error is set.
C29_ResultsOnlyFromSuccess == [][AttemptCompletes => ShownOnlyOnSuccess]_vars

\* The same, of App.handleCalculate alone.
HandleCalculateShowsOnlySuccess ==
    [][page = "App.jsx" /\ AttemptCompletes => ShownOnlyOnSuccess]_vars

(***************************************************************************)
(* LocationSearch (src/unnamed/part_005): the debounced search box.        *)
(*                                                                         *)
(* timers is the browser's side of setTimeout/clearTimeout: the timers of  *)
(* the component that are set and have neither fired nor been cleared.     *)
(* debounceTimeout is the component's side: the id it was last handed,     *)
(* which it keeps after that timer has fired.  searches are the calls of   *)
(* searchLocation awaiting their response, oldest first; responses arrive  *)
(* in any order.                                                           *)
(***************************************************************************)
MaxSearches == 2
MaxElapsed == 2400

DebounceDelay == 800

\* What the user types into the box.
SearchTexts == {"", " ", "Nag", "Nagpur"}

\* !val.trim()
isBlank(val) == val \in {"", " "}

\* Nominatim's first result for a query: its lat and lon are strings.
Place(query) ==
    IF query = "Nagpur"
    THEN [lat |-> Str(<<"2", "1", ".", "1", "4", "6">>),
          lon |-> Str(<<"7", "9", ".", "0", "8", "9">>)]
    ELSE [lat |-> Str(<<"4", "7", ".", "1", "9", "6">>),
          lon |-> Str(<<"8", ".", "4", "9", "3">>)]

\* searchLocation (apiService.js 18-32): response.data, the array of
\* results, or [] when the request failed.
searchLocation(query, found) == IF found THEN <<Place(query)>> ELSE <<>>

TimerIds == {1, 2, 3}

\* The ref holds this timer id.
Holds(id) == debounceTimeout = [id |-> id]

\* setTimeout's return value: an id no timer holds; the model takes the
\* least one that neither a pending timer nor the component's ref holds.
setTimeoutId ==
    LET free == {id \in TimerIds :
                    id \notin {t.id : t \in timers} /\ ~Holds(id)}
    IN  CHOOSE id \in free : \A other \in free : id <= other

\* if (debounceTimeout.current) clearTimeout(debounceTimeout.current)
clearTimeout == {t \in timers : ~Holds(t.id)}

\* The start of a search: setIsSearching(true) and the call of
\* searchLocation, up to its await.
startSearch(val) ==
    /\ isSearching' = TRUE
    /\ searches' = Append(searches, val)
    /\ lastQuery' = [val |-> val, found |-> "pending"]

\* handleInputChange: the box changes to val.
handleInputChange ==
    /\ \E val \in SearchTexts \ {inputValue} :
          /\ inputValue' = val
          /\ IF isBlank(val)
             THEN /\ timers' = clearTimeout
                  /\ UNCHANGED debounceTimeout
             ELSE /\ timers' = clearTimeout \cup
                        {[id |-> setTimeoutId, val |-> val,
                          due |-> clock + DebounceDelay]}
                  /\ debounceTimeout' = [id |-> setTimeoutId]
    /\ UNCHANGED <<isSearching, searches, reported, lastQuery, clock>>
    /\ UNCHANGED <<backendVars, normVars, serviceVars, appVars>>

\* The callback of the debounce timer, up to its await.
debounceFires ==
    /\ Len(searches) < MaxSearches
    /\ \E t \in timers :
          /\ t.due <= clock
          /\ timers' = timers \ {t}
          /\ startSearch(t.val)
    /\ UNCHANGED <<inputValue, debounceTimeout, reported, clock>>
    /\ UNCHANGED <<backendVars, normVars, serviceVars, appVars>>

\* handleSearch, up to its await: Enter in the box or the search button.
handleSearch ==
    /\ ~isBlank(inputValue)
    /\ Len(searches) < MaxSearches
    /\ timers' = clearTimeout
    /\ startSearch(inputValue)
    /\ UNCHANGED <<inputValue, debounceTimeout, reported, clock>>
    /\ UNCHANGED <<backendVars, normVars, serviceVars, appVars>>

\* searches without its i-th element.
Without(i) ==
    [j \in 1..(Len(searches) - 1) |->
        IF j < i THEN searches[j] ELSE searches[j + 1]]

\* App.handleLocationFound, the onLocationFound of the search box: the map
\* and the form take the location, the error is cleared.
handleLocationFound(location) ==
    /\ reported' = location
    /\ error' = Null

\* The rest of a search after its await (the same code in the timer's
\* callback and in handleSearch): the first result goes to onLocationFound;
\* setSearchQuery, which CalculatorForm does not pass, throws into the
\* catch; the finally sets isSearching to false.
searchSettled ==
    /\ \E i \in 1..Len(searches), found \in BOOLEAN :
          LET val == searches[i]
              foundLocations == searchLocation(val, found)
          IN  /\ searches' = Without(i)
              /\ IF Len(foundLocations) > 0
                 THEN handleLocationFound(
                          [lat |-> parseFloat(foundLocations[1].lat),
                           lng |-> parseFloat(foundLocations[1].lon),
                           name |-> val])
                 ELSE UNCHANGED <<reported, error>>
              /\ lastQuery' =
                    IF i = Len(searches) /\ lastQuery.found = "pending"
                    THEN [lastQuery EXCEPT
                             !.found = IF found THEN "yes" ELSE "no"]
                    ELSE lastQuery
    /\ isSearching' = FALSE
    /\ UNCHANGED <<inputValue, debounceTimeout, timers, clock>>
    /\ UNCHANGED <<page, isCalculating, showResults, results, appSolarData,
                   attempt>>
    /\ UNCHANGED <<backendVars, normVars, serviceVars>>

\* Time passes, by half the delay; a timer that is due fires first.
Elapse ==
    /\ clock < MaxElapsed
    /\ \A t \in timers : clock < t.due
    /\ clock' = clock + DebounceDelay \div 2
    /\ UNCHANGED <<inputValue, isSearching, debounceTimeout, timers,
                   searches, reported, lastQuery>>
    /\ UNCHANGED <<backendVars, normVars, serviceVars, appVars>>

InitSearch == InitBackend /\ NormIdle /\ FrontIdle

NextSearch ==
    \/ handleInputChange
    \/ debounceFires
    \/ handleSearch
    \/ searchSettled
    \/ Elapse

SpecSearch == InitSearch /\ [][NextSearch]_vars

(***************************************************************************)
(* Claims on the search box.                                               *)
(***************************************************************************)
\* No timer is pending and no search awaits its response.
SearchQuiet == timers = {} /\ searches = <<>>

\* The search started last found a location.
LatestQueryFound == lastQuery # Null /\ lastQuery.found = "yes"

\* The debounce timer: at most one is pending; a keystroke leaves only the
\* timer it sets, none for a blank value; an explicit search leaves none; a
\* timer fires for the value the box holds, no sooner than the delay after
\* it was typed.
OneDebounceTimer ==
    /\ [](Cardinality(timers) <= 1)
    /\ [][/\ inputValue' # inputValue =>
                timers' = IF isBlank(inputValue') THEN {}
                          ELSE {[id |-> debounceTimeout'.id,
                                 val |-> inputValue',
                                 due |-> clock + DebounceDelay]}
          /\ handleSearch => timers' = {}
          /\ debounceFires =>
                \E t \in timers :
                    /\ t.val = inputValue
                    /\ clock >= t.due
                    /\ searches' = Append(searches, inputValue)
         ]_vars

\* Once the box is quiet, the location reported last is that of the query
\* searched last.
LatestQueryReported ==
    SearchQuiet /\ LatestQueryFound => reported.name = lastQuery.val

\* C30: at most one debounce timer is pending at any time (each keystroke
\* cancels the pending one, an empty input schedules none, an explicit
\* search cancels the pending one), the pending timer is for the last value
\* typed, and once the box is quiet the location last reported to
\* onLocationFound is that of the latest query.  (OneDebounceTimer has the
\* steps of the timer, which hold.)
C30_DebouncedSearchReportsLatest ==
    /\ Cardinality(timers) <= 1
    /\ \A t \in timers : t.val = inputValue /\ Holds(t.id)
    /\ LatestQueryReported

====
